---- MODULE Spec2Model ----
(***************************************************************************)
(* The terminal pool of HaiberDyn Agentic Terminal Tools (TerminalPool in  *)
(* src/src/types.ts, ExecuteInTerminalTool in                              *)
(* src/src/execute-in-terminal.ts) as a state machine.  The VS Code host   *)
(* (terminal creation, the newWithProfile command, opened/closed           *)
(* notifications, timers, cancellation tokens) is the environment.         *)
(*                                                                         *)
(* JavaScript runs each handler to its next await, so one action is one    *)
(* handler run together with the promise continuations it releases.        *)
(* Terminal.show(true) only moves the host's focus and logging only        *)
(* prints: neither is part of the state.                                   *)
(* Strings are sequences of one-character strings, so that case folding,   *)
(* substring search and comparison are computed, not assumed.              *)
(***************************************************************************)
EXTENDS Integers, Sequences, FiniteSets, TLC

(* ------------------------------ bounds -------------------------------- *)
\* terminals the host ever creates
MaxTerminals == 2
\* ManagedTerminal objects ever created (ids ever generated)
MaxIds == 3
\* openTerminalProfile calls ever started
MaxCalls == 1
\* instructions recorded per terminal
MaxSent == 5
\* largest reading of the clock
MaxClock == 1
\* executeCommand calls ever started
MaxRuns == 1
\* direct calls of TerminalPool.executeCommand
MaxExecs == 2
\* characters in a comment handed to the pool
MaxComment == 2

(* ------------------------------ strings ------------------------------- *)
UpperChars == <<"A","B","C","D","E","F","G","H","I","J","K","L","M",
                "N","O","P","Q","R","S","T","U","V","W","X","Y","Z">>
LowerChars == <<"a","b","c","d","e","f","g","h","i","j","k","l","m",
                "n","o","p","q","r","s","t","u","v","w","x","y","z">>

toLowerCase(s) ==
  [i \in 1..Len(s) |->
     IF \E j \in 1..Len(UpperChars) : UpperChars[j] = s[i]
     THEN LowerChars[CHOOSE j \in 1..Len(UpperChars) : UpperChars[j] = s[i]]
     ELSE s[i]]

toUpperCase(s) ==
  [i \in 1..Len(s) |->
     IF \E j \in 1..Len(LowerChars) : LowerChars[j] = s[i]
     THEN UpperChars[CHOOSE j \in 1..Len(LowerChars) : LowerChars[j] = s[i]]
     ELSE s[i]]

\* String.prototype.includes: case-sensitive substring search
includes(s, sub) ==
  \E i \in 0..(Len(s) - Len(sub)) : SubSeq(s, i + 1, i + Len(sub)) = sub

\* an optional value: <<>> is undefined, <<v>> is the value v
None == <<>>
Some(v) == <<v>>
IsSome(o) == o # <<>>
\* JavaScript truthiness of an optional string: defined and not ''
Truthy(o) == o # <<>> /\ o[1] # <<>>

(* --------------------------- program constants ------------------------ *)
ShellTypes == {"powershell", "gitbash", "wsl", "ubuntu", "cmd"}

ShellTypeText(k) ==
  CASE k = "powershell" -> <<"p","o","w","e","r","s","h","e","l","l">>
    [] k = "gitbash"    -> <<"g","i","t","b","a","s","h">>
    [] k = "wsl"        -> <<"w","s","l">>
    [] k = "ubuntu"     -> <<"u","b","u","n","t","u">>
    [] k = "cmd"        -> <<"c","m","d">>

SHELL_EXECUTABLE_MAP(k) ==
  CASE k = "powershell" -> <<"p","w","s","h",".","e","x","e">>
    [] k = "gitbash"    -> <<"b","a","s","h",".","e","x","e">>
    [] k = "wsl"        -> <<"w","s","l",".","e","x","e">>
    [] k = "ubuntu"     -> <<"w","s","l",".","e","x","e">>
    [] k = "cmd"        -> <<"c","m","d",".","e","x","e">>

PROFILE_PLATFORMS == <<"windows", "linux", "osx">>

PROMPT_ID_ENV == "HDPROMPT_ID"
PROMPT_COMMENT_ENV == "HDPROMPT_COMMENT"

\* `undefined` where a terminal handle or a session id is expected
NoTerminal == 0
NoId == 0

(* ------------------------------- state -------------------------------- *)
VARIABLES
  config,            \* terminal.integrated.profiles.<platform>: names per platform
  terminals,         \* the host's terminals, by handle (name, options, sent text)
  pendingOpen,       \* handles whose opened-notification is not yet delivered
  terminalsById,     \* TerminalPool.terminalsById: key -> ManagedTerminal
  terminalsByShell,  \* TerminalPool.terminalsByShell: shell type -> ManagedTerminal
  terminalToId,      \* TerminalPool.terminalToId: handle -> id
  heap,              \* every ManagedTerminal object ever built, by id
  executions,        \* TerminalPool.executions: execution id -> timer
  disposables,       \* TerminalPool.disposables: live closed-notification subscriptions
  calls,             \* openTerminalProfile calls, in the order they started
  runs,              \* ExecuteInTerminalTool.invoke calls, in the order they started
  now,               \* Date.now()
  lastGot,           \* per shell type, the id getOrCreateTerminal returned last
  updated            \* what updateTerminalComment returned last: "none", "true", "false"

vars == <<config, terminals, pendingOpen, terminalsById,
          terminalsByShell, terminalToId, heap, executions, disposables,
          calls, runs, now, lastGot, updated>>

Handles == 1..Len(terminals)
Ids == 1..Len(heap)

(* ----------------------------- pure helpers --------------------------- *)
\* TerminalPool.getShellPathFromOptions
getShellPathFromOptions(options) ==
  IF ~IsSome(options) THEN <<>> ELSE toLowerCase(options[1])

S_pwsh == <<"p","w","s","h">>
S_powershell == <<"p","o","w","e","r","s","h","e","l","l">>
S_cmd_exe == <<"c","m","d",".","e","x","e">>
S_command_prompt == <<"c","o","m","m","a","n","d"," ","p","r","o","m","p","t">>
S_bash_exe == <<"b","a","s","h",".","e","x","e">>
S_git_bash == <<"g","i","t"," ","b","a","s","h">>
S_wsl_exe == <<"w","s","l",".","e","x","e">>
S_wsl == <<"w","s","l">>
S_ubuntu == <<"u","b","u","n","t","u">>

\* detectShellTypeFromTerminal testing the ubuntu rule before the wsl rule
detectShellTypeUbuntuFirst(options, profileName) ==
  LET lowerProfile == IF IsSome(profileName) THEN toLowerCase(profileName[1]) ELSE <<>>
      lowerShellPath == getShellPathFromOptions(options)
  IN  IF \/ includes(lowerShellPath, S_pwsh)
         \/ includes(lowerShellPath, S_powershell)
         \/ includes(lowerProfile, S_powershell)
      THEN "powershell"
      ELSE IF includes(lowerShellPath, S_cmd_exe) \/ includes(lowerProfile, S_command_prompt)
      THEN "cmd"
      ELSE IF includes(lowerShellPath, S_bash_exe) \/ includes(lowerProfile, S_git_bash)
      THEN "gitbash"
      ELSE IF includes(lowerProfile, S_ubuntu)
      THEN "ubuntu"
      ELSE IF includes(lowerShellPath, S_wsl_exe) \/ includes(lowerProfile, S_wsl)
      THEN "wsl"
      ELSE "undefined"

\* TerminalPool.detectShellTypeFromTerminal; profileName is optional
detectShellTypeFromTerminal(options, profileName) ==
  LET lowerProfile == IF IsSome(profileName) THEN toLowerCase(profileName[1]) ELSE <<>>
      lowerShellPath == getShellPathFromOptions(options)
  IN  IF \/ includes(lowerShellPath, S_pwsh)
         \/ includes(lowerShellPath, S_powershell)
         \/ includes(lowerProfile, S_powershell)
      THEN "powershell"
      ELSE IF includes(lowerShellPath, S_cmd_exe) \/ includes(lowerProfile, S_command_prompt)
      THEN "cmd"
      ELSE IF includes(lowerShellPath, S_bash_exe) \/ includes(lowerProfile, S_git_bash)
      THEN "gitbash"
      ELSE IF includes(lowerShellPath, S_wsl_exe) \/ includes(lowerProfile, S_wsl)
      THEN "wsl"
      ELSE IF includes(lowerProfile, S_ubuntu)
      THEN "ubuntu"
      ELSE "undefined"

\* getShellFlavor testing the launch path before the shell type
getShellFlavorPathFirst(shellType, options) ==
  LET fallbackPath == getShellPathFromOptions(options)
  IN  IF includes(fallbackPath, S_pwsh) \/ includes(fallbackPath, S_powershell)
      THEN "powershell"
      ELSE IF includes(fallbackPath, S_cmd_exe)
      THEN "cmd"
      ELSE IF shellType \in {"powershell", "cmd"}
      THEN shellType
      ELSE "bash"

\* TerminalPool.getShellFlavor
getShellFlavor(shellType, options) ==
  LET fallbackPath == getShellPathFromOptions(options)
  IN  IF \/ shellType = "powershell"
         \/ includes(fallbackPath, S_pwsh)
         \/ includes(fallbackPath, S_powershell)
      THEN "powershell"
      ELSE IF shellType = "cmd" \/ includes(fallbackPath, S_cmd_exe)
      THEN "cmd"
      ELSE "bash"

\* TerminalPool.quoteForShell: the three replace() passes, in order
RECURSIVE ReplaceBackslash(_)
ReplaceBackslash(s) ==
  IF s = <<>> THEN <<>>
  ELSE IF Head(s) = "\\" THEN <<"\\", "\\">> \o ReplaceBackslash(Tail(s))
  ELSE <<Head(s)>> \o ReplaceBackslash(Tail(s))

RECURSIVE ReplaceQuote(_)
ReplaceQuote(s) ==
  IF s = <<>> THEN <<>>
  ELSE IF Head(s) = "\"" THEN <<"\\", "\"">> \o ReplaceQuote(Tail(s))
  ELSE <<Head(s)>> \o ReplaceQuote(Tail(s))

RECURSIVE ReplaceNewline(_)
ReplaceNewline(s) ==
  IF s = <<>> THEN <<>>
  ELSE IF Len(s) >= 2 /\ s[1] = "\r" /\ s[2] = "\n"
  THEN <<" ">> \o ReplaceNewline(Tail(Tail(s)))
  ELSE IF Head(s) = "\n" THEN <<" ">> \o ReplaceNewline(Tail(s))
  ELSE <<Head(s)>> \o ReplaceNewline(Tail(s))

quoteForShell(value) == ReplaceNewline(ReplaceQuote(ReplaceBackslash(value)))

\* TerminalPool.generateId: randomUUID() never repeats; the n-th id is n,
\* written in the instructions as the text "id-n"
Digits == <<"0","1","2","3","4","5","6","7","8","9">>
IdText(id) == <<"i","d","-", Digits[(id % 10) + 1]>>

\* one sendText(text, true) of TerminalPool.setPromptEnvVariables
EnvInstruction(flavor, var, value) ==
  [op |-> "env", flavor |-> flavor, var |-> var, value |-> value]

\* TerminalPool.setPromptEnvVariables: the two instructions sent
setPromptEnvVariables(flavor, id, comment) ==
  << EnvInstruction(flavor, PROMPT_ID_ENV, quoteForShell(IdText(id))),
     EnvInstruction(flavor, PROMPT_COMMENT_ENV, quoteForShell(comment)) >>

\* TerminalPool.applyMetadata: the instructions sent for metadata m
applyMetadata(m, options) ==
  LET shellFlavor == getShellFlavor(m.shellType, options)
      safeComment == IF IsSome(m.comment) THEN m.comment[1] ELSE <<>>
  IN  setPromptEnvVariables(shellFlavor, m.id, safeComment)

\* Map.delete
MapDelete(f, k) == [x \in DOMAIN f \ {k} |-> f[x]]
\* Map.set
MapSet(f, k, v) == (k :> v) @@ f
EmptyMap == <<>>


(* ------------------------ the pool, as a value ------------------------ *)
\* The part of the state a handler and the continuations it releases work on.
State ==
  [terminals |-> terminals,
   terminalsById |-> terminalsById, terminalsByShell |-> terminalsByShell,
   terminalToId |-> terminalToId, heap |-> heap, calls |-> calls,
   runs |-> runs, executions |-> executions]

Commit(s) ==
  /\ terminals' = s.terminals
  /\ terminalsById' = s.terminalsById
  /\ terminalsByShell' = s.terminalsByShell
  /\ terminalToId' = s.terminalToId
  /\ heap' = s.heap
  /\ calls' = s.calls
  /\ runs' = s.runs
  /\ executions' = s.executions

\* the bound on the instructions recorded per terminal
WithinSent(s) == \A h \in 1..Len(s.terminals) : Len(s.terminals[h].sentTexts) <= MaxSent

\* vscode.Terminal.sendText, for each text in turn
sendText(s, h, texts) == [s EXCEPT !.terminals[h].sentTexts = @ \o texts]

\* a ManagedTerminal object literal whose id is the next free slot of terminalsById
NewManagedTerminalSlotId(s, terminal, shellType, profileName, comment) ==
  [s EXCEPT !.heap = Append(@,
     [id |-> Cardinality(DOMAIN s.terminalsById) + 1, terminal |-> terminal,
      shellType |-> shellType, profileName |-> profileName, comment |-> comment,
      createdAt |-> now, lastUsedAt |-> now])]

\* a ManagedTerminal object literal with id generateId()
NewManagedTerminal(s, terminal, shellType, profileName, comment) ==
  [s EXCEPT !.heap = Append(@,
     [id |-> Len(s.heap) + 1, terminal |-> terminal, shellType |-> shellType,
      profileName |-> profileName, comment |-> comment,
      createdAt |-> now, lastUsedAt |-> now])]

\* TerminalPool.applyMetadata on the object with this id
applyMetadataTo(s, id) ==
  LET m == s.heap[id]
  IN  sendText(s, m.terminal, applyMetadata(m, s.terminals[m.terminal].creationOptions))

\* registerManagedTerminal without its terminalsByShell.set
registerByShellNever(byShell, metadata) == byShell

\* registerManagedTerminal keeping an entry that is already there
registerByShellKeep(byShell, metadata) ==
  IF metadata.shellType # "undefined" /\ metadata.shellType \notin DOMAIN byShell
  THEN MapSet(byShell, metadata.shellType, metadata.id)
  ELSE byShell

\* TerminalPool.registerManagedTerminal: the terminalsByShell update
registerByShell(byShell, metadata) ==
  IF metadata.shellType # "undefined"
  THEN MapSet(byShell, metadata.shellType, metadata.id)
  ELSE byShell

\* TerminalPool.registerManagedTerminal: the terminalsById update
registerById(byId, metadata) == MapSet(byId, metadata.id, metadata.id)

\* registerManagedTerminal without its applyMetadata
registerManagedTerminalNoStamp(s, id) ==
  LET metadata == s.heap[id]
  IN  [s EXCEPT
         !.terminalsById = registerById(@, metadata),
         !.terminalsByShell = registerByShell(@, metadata),
         !.terminalToId = MapSet(@, metadata.terminal, metadata.id),
         !.heap[id].lastUsedAt = now]

\* TerminalPool.registerManagedTerminal(metadata), metadata the object with this id
registerManagedTerminal(s, id) ==
  LET metadata == s.heap[id]
      s1 == [s EXCEPT
               !.terminalsById = registerById(@, metadata),
               !.terminalsByShell = registerByShell(@, metadata),
               !.terminalToId = MapSet(@, metadata.terminal, metadata.id),
               !.heap[id].lastUsedAt = now]
  IN  applyMetadataTo(s1, id)

\* vscode.window.createTerminal({name, shellPath, hideFromUser: false})
HostTerminal(name, shellPath, shellIntegration) ==
  [name |-> name, creationOptions |-> shellPath, sentTexts |-> <<>>,
   shellIntegration |-> shellIntegration, closed |-> FALSE, disposed |-> FALSE,
   closedAs |-> ""]

(* ------------------------------ inputs -------------------------------- *)
P_WSL == <<"W","S","L">>
P_wsl == <<"w","s","l">>
P_zsh == <<"z","s","h">>
C_build == <<"b","u","i","l","d">>

\* the profile names callers ask for
ProfileNames == {P_WSL, P_wsl, P_zsh}
\* the comments callers pass (undefined, or a text)
Comments == {None, Some(C_build)}
\* the settings the run may start with: names per platform bucket
Catalogs ==
  { [windows |-> <<>>, linux |-> <<>>, osx |-> <<>>],
    [windows |-> <<P_WSL>>, linux |-> <<P_zsh>>, osx |-> <<>>] }
\* a comment with a quote, a backslash and a line break
C_quote == <<"\"", "\\", "\r", "\n">>
\* the comments getOrCreateTerminal is given in the metadata specification
MetaComments == {None}
\* the comments updateTerminalComment is given
UpdateComments == {<<>>, C_quote}
\* profile names and launch paths for the shell-kind rules
P_PowerShell == <<"P","o","w","e","r","S","h","e","l","l">>
P_Ubuntu_WSL == <<"U","b","u","n","t","u"," ","(","W","S","L",")">>
X_CMD == <<"C","M","D",".","E","X","E">>
X_wsl == <<"w","s","l",".","e","x","e">>
X_zsh == <<"z","s","h">>
DetectNames ==
  { P_WSL, P_zsh, P_PowerShell, P_Ubuntu_WSL,
    <<"C","o","m","m","a","n","d"," ","P","r","o","m","p","t">>,
    <<"G","i","t"," ","B","a","s","h">>,
    <<"U","b","u","n","t","u">>,
    <<"W","S","L"," ","G","i","t"," ","B","a","s","h">> }
DetectPaths ==
  {None} \cup
  { Some(x) : x \in { X_CMD, X_wsl, X_zsh,
                      <<"P","W","S","H",".","E","X","E">>,
                      <<"p","o","w","e","r","s","h","e","l","l",".","e","x","e">>,
                      <<"b","a","s","h",".","e","x","e">> } }
\* the terminals the host opens for these profiles
DetectTemplates == {[name |-> P_zsh, shellPath |-> x] : x \in DetectPaths}
\* the shell types getOrCreateTerminal is asked for
RequestedShells == {"wsl", "powershell"}

(* ------------------------------- Init --------------------------------- *)
Init ==
  /\ config \in Catalogs
  /\ terminals = <<>>
  /\ pendingOpen = {}
  /\ terminalsById = EmptyMap
  /\ terminalsByShell = EmptyMap
  /\ terminalToId = EmptyMap
  /\ heap = <<>>
  /\ executions = EmptyMap
  /\ disposables = <<"onDidCloseTerminal">>
  /\ calls = <<>>
  /\ runs = <<>>
  /\ now = 0
  /\ lastGot = [k \in ShellTypes |-> [id |-> NoId, replaced |-> FALSE]]
  /\ updated = "none"

\* ids still to be generated by the openTerminalProfile calls in flight
ReservedIds == Cardinality({c \in 1..Len(calls) : calls[c].pc # "done"})

(* --------------------------- getOrCreateTerminal ---------------------- *)
\* the reuse path setting lastUsedAt back to createdAt
ReuseTerminalStale(s, id, comment, profileName) ==
  LET s1 == [s EXCEPT
               !.heap[id].lastUsedAt = s.heap[id].createdAt,
               !.heap[id].comment = IF Truthy(comment) THEN comment ELSE @,
               !.heap[id].profileName = IF Truthy(profileName) THEN profileName ELSE @]
  IN  applyMetadataTo(s1, id)

\* the reuse path storing options.comment and options.profileName as given
ReuseTerminalOverwrites(s, id, comment, profileName) ==
  LET s1 == [s EXCEPT
               !.heap[id].lastUsedAt = now,
               !.heap[id].comment = comment,
               !.heap[id].profileName = profileName]
  IN  applyMetadataTo(s1, id)

\* TerminalPool.getOrCreateTerminal, the reuse path
ReuseTerminal(s, id, comment, profileName) ==
  LET s1 == [s EXCEPT
               !.heap[id].lastUsedAt = now,
               !.heap[id].comment = IF Truthy(comment) THEN comment ELSE @,
               !.heap[id].profileName = IF Truthy(profileName) THEN profileName ELSE @]
  IN  applyMetadataTo(s1, id)

\* TerminalPool.getOrCreateTerminal, the create path
CreateTerminal(s, shellType, comment, profileName) ==
  LET name == <<"H","D","I"," ">> \o toUpperCase(ShellTypeText(shellType))
      h == Len(s.terminals) + 1
      s1 == [s EXCEPT !.terminals =
               Append(@, HostTerminal(name, Some(SHELL_EXECUTABLE_MAP(shellType)), FALSE))]
      s2 == NewManagedTerminal(s1, h, shellType, profileName, comment)
  IN  registerManagedTerminal(s2, Len(s2.heap))

GetOrCreateTerminal(shellType, comment, profileName) ==
  LET existing == shellType \in DOMAIN terminalsByShell
      s1 == IF existing
            THEN ReuseTerminal(State, terminalsByShell[shellType], comment, profileName)
            ELSE CreateTerminal(State, shellType, comment, profileName)
      id == IF existing THEN terminalsByShell[shellType] ELSE Len(heap) + 1
  IN  /\ existing \/ (Len(terminals) < MaxTerminals /\ Len(heap) + ReservedIds < MaxIds)
      /\ WithinSent(s1)
      /\ Commit(s1)
      /\ pendingOpen' = IF existing THEN pendingOpen ELSE pendingOpen \cup {Len(terminals) + 1}
      /\ lastGot' = [lastGot EXCEPT ![shellType] = [id |-> id, replaced |-> FALSE]]
      /\ UNCHANGED <<config, updated, disposables, now>>

(* -------------------------- updateTerminalComment --------------------- *)
\* updateTerminalComment without its refresh of lastUsedAt
updateTerminalCommentKeepsTime(s, id, comment) ==
  IF id \notin DOMAIN s.terminalsById
  THEN s
  ELSE applyMetadataTo([s EXCEPT !.heap[s.terminalsById[id]].comment = Some(comment)],
                       s.terminalsById[id])

\* TerminalPool.updateTerminalComment(id, comment), on the pool value
updateTerminalComment(s, id, comment) ==
  IF id \notin DOMAIN s.terminalsById
  THEN s
  ELSE LET obj == s.terminalsById[id]
           s1 == [s EXCEPT !.heap[obj].comment = Some(comment),
                           !.heap[obj].lastUsedAt = now]
       IN  applyMetadataTo(s1, obj)

UpdateTerminalComment(id, comment) ==
  LET s1 == updateTerminalComment(State, id, comment)
  IN  /\ WithinSent(s1)
      /\ Commit(s1)
      /\ updated' = IF id \in DOMAIN terminalsById THEN "true" ELSE "false"
      /\ UNCHANGED <<config, pendingOpen, disposables, now, lastGot>>

(* --------------------------- closed notification ---------------------- *)
\* handleClosedTerminal without its terminalsByShell.delete
closedByShellNever(byShell, metadata) == byShell

\* handleClosedTerminal deleting the entry of the kind whichever session holds it
closedByShellAlways(byShell, metadata) ==
  IF metadata.shellType # "undefined" /\ metadata.shellType \in DOMAIN byShell
  THEN MapDelete(byShell, metadata.shellType)
  ELSE byShell

\* TerminalPool.handleClosedTerminal: the terminalsByShell update
closedByShell(byShell, metadata) ==
  IF /\ metadata.shellType # "undefined"
     /\ metadata.shellType \in DOMAIN byShell
     /\ byShell[metadata.shellType] = metadata.id
  THEN MapDelete(byShell, metadata.shellType)
  ELSE byShell

\* TerminalPool.handleClosedTerminal(terminal)
handleClosedTerminal(s, terminal) ==
  IF terminal \notin DOMAIN s.terminalToId
  THEN s
  ELSE LET terminalId == s.terminalToId[terminal]
       IN  [s EXCEPT
             !.terminalsByShell =
                IF terminalId \in DOMAIN s.terminalsById
                THEN closedByShell(@, s.heap[s.terminalsById[terminalId]])
                ELSE @,
             !.terminalsById = MapDelete(@, terminalId),
             !.terminalToId = MapDelete(@, terminal)]

\* what terminal h is to the pool: the current session of its kind, a session of a
\* kind whose current session is another one, another session, or none
closedAs(h) ==
  IF disposables = <<>> THEN "unheard"
  ELSE IF h \notin DOMAIN terminalToId THEN "unregistered"
  ELSE LET m == heap[terminalToId[h]]
       IN  IF m.shellType \notin DOMAIN terminalsByShell THEN "noKind"
           ELSE IF terminalsByShell[m.shellType] = m.id THEN "current"
           ELSE "nonCurrent"

\* The host closes terminal h (the user closes the tab, the shell exits) and
\* fires onDidCloseTerminal, which the pool hears while it is subscribed.
\* (closedAs notes what the closed terminal was to the pool at that moment)
OnDidCloseTerminal(h) ==
  /\ h \in Handles
  /\ ~terminals[h].closed
  /\ LET s0 == [State EXCEPT !.terminals[h].closed = TRUE,
                             !.terminals[h].closedAs = closedAs(h)]
         s1 == IF disposables # <<>> THEN handleClosedTerminal(s0, h) ELSE s0
     IN  Commit(s1)
  /\ lastGot' = [k \in ShellTypes |-> [id |-> NoId, replaced |-> FALSE]]
  /\ UNCHANGED <<config, updated, pendingOpen, disposables, now>>

(* -------------------------------- time -------------------------------- *)
Tick ==
  /\ now < MaxClock
  /\ now' = now + 1
  /\ UNCHANGED <<config, updated, terminals, pendingOpen, terminalsById,
                 terminalsByShell, terminalToId, heap, executions, disposables,
                 calls, runs, lastGot>>


(* --------------------------- openTerminalProfile ---------------------- *)
\* TerminalPool.collectProfileEntries: the entries, platform by platform
collectProfileEntries ==
  LET Bucket(platform) ==
        [i \in 1..Len(config[platform]) |-> [name |-> config[platform][i], platform |-> platform]]
  IN  Bucket(PROFILE_PLATFORMS[1]) \o Bucket(PROFILE_PLATFORMS[2]) \o Bucket(PROFILE_PLATFORMS[3])

\* the lookup comparing names without regard to case
findProfileIgnoreCase(profiles, profileName) ==
  IF \E i \in 1..Len(profiles) : toLowerCase(profiles[i].name) = toLowerCase(profileName)
  THEN CHOOSE i \in 1..Len(profiles) :
         /\ toLowerCase(profiles[i].name) = toLowerCase(profileName)
         /\ \A j \in 1..(i - 1) : toLowerCase(profiles[j].name) # toLowerCase(profileName)
  ELSE 0

\* profiles.find((entry) => entry.name === profileName): the index found, or 0
findProfile(profiles, profileName) ==
  IF \E i \in 1..Len(profiles) : profiles[i].name = profileName
  THEN CHOOSE i \in 1..Len(profiles) :
         /\ profiles[i].name = profileName
         /\ \A j \in 1..(i - 1) : profiles[j].name # profileName
  ELSE 0

\* the lookup of openTerminalProfile fails
profileNotFound(profiles, profileName) ==
  findProfile(profiles, profileName) = 0 /\ Len(profiles) > 0

\* profiles.map((entry) => entry.name), the names the error message joins
availableNames(profiles) == [i \in 1..Len(profiles) |-> profiles[i].name]

NoResult == [kind |-> "pending", id |-> NoId, available |-> <<>>]

\* a call that settled before it started a wait
EarlyCall(profileName, comment, hasToken, cancelled, result) ==
  [pc |-> "done", profileName |-> profileName, profileToUse |-> profileName,
   comment |-> comment, hasToken |-> hasToken, cancelled |-> cancelled,
   listener |-> FALSE, cancel |-> FALSE, timeout |-> FALSE,
   settled |-> FALSE, value |-> NoTerminal,
   command |-> "notIssued", created |-> NoTerminal, commandValue |-> NoTerminal,
   result |-> result,
   elapsed |-> FALSE, firstMatch |-> NoTerminal, cancelledEarly |-> FALSE]

\* the wait without its onDidOpenTerminal subscription, as if the command
\* were issued before the wait started
waitForNextTerminalOpenUnsubscribed(call) ==
  [call EXCEPT !.listener = FALSE, !.timeout = TRUE, !.cancel = call.hasToken,
               !.settled = FALSE, !.value = NoTerminal]

\* TerminalPool.waitForNextTerminalOpen, as started inside the call record:
\* the listener, the 3000 ms timer, and the cancel subscription when a token is given
waitForNextTerminalOpen(call) ==
  [call EXCEPT !.listener = TRUE, !.timeout = TRUE, !.cancel = call.hasToken,
               !.settled = FALSE, !.value = NoTerminal]

\* the dispose() that waitForNextTerminalOpen returns
disposeWait(call) ==
  [call EXCEPT !.listener = FALSE, !.cancel = FALSE, !.timeout = FALSE]

\* resolve(value) of the wait's promise: the first resolve decides
resolveWait(call, value) ==
  IF call.settled THEN call ELSE [call EXCEPT !.settled = TRUE, !.value = value]

\* the listener resolving on any terminal, whatever its name
waitListenerAnyName(call, h, name) == disposeWait(resolveWait(call, h))

\* the onDidOpenTerminal listener of the wait
waitListener(call, h, name) ==
  IF includes(name, call.profileToUse)
  THEN disposeWait(resolveWait(call, h))
  ELSE call

\* the timer callback disposing the subscriptions without resolving the promise
waitTimeoutNoResolve(call) ==
  [call EXCEPT !.listener = FALSE, !.cancel = FALSE, !.timeout = FALSE]

\* the 3000 ms timer callback of the wait (the timer itself has fired)
waitTimeout(call) ==
  [resolveWait(call, NoTerminal) EXCEPT !.listener = FALSE, !.cancel = FALSE, !.timeout = FALSE]

\* the onCancellationRequested callback of the wait
waitCancelled(call) == disposeWait(resolveWait(call, NoTerminal))

\* TerminalPool.registerProfileTerminal(terminal, profileName, comment); the id made
registerProfileTerminal(s, terminal, profileName, comment) ==
  LET shellType == detectShellTypeFromTerminal(s.terminals[terminal].creationOptions,
                                               Some(profileName))
      s1 == NewManagedTerminal(s, terminal, shellType, Some(profileName), comment)
  IN  registerManagedTerminal(s1, Len(s1.heap))

\* openTerminalProfile from the end of its awaits, with the terminal it holds
finishOpen(s, c, terminal) ==
  IF terminal = NoTerminal
  THEN [s EXCEPT !.calls[c].pc = "done",
                 !.calls[c].result = [NoResult EXCEPT !.kind = "SessionCreationFailed"]]
  ELSE LET s1 == registerProfileTerminal(s, terminal, s.calls[c].profileToUse,
                                         s.calls[c].comment)
       IN  [s1 EXCEPT !.calls[c].pc = "done",
                      !.calls[c].result = [NoResult EXCEPT !.kind = "ok", !.id = Len(s1.heap)]]

\* the continuations released when waits settle: every call that was awaiting
\* its wait in `before` and whose promise is settled in s resumes, in call order
RECURSIVE resumeAwaiting(_, _, _)
resumeAwaiting(s, before, c) ==
  IF c > Len(s.calls) THEN s
  ELSE IF before[c].pc = "awaitWait" /\ s.calls[c].settled
       THEN resumeAwaiting(finishOpen(s, c, s.calls[c].value), before, c + 1)
       ELSE resumeAwaiting(s, before, c + 1)

\* the objects a step created, and the ghost record of getOrCreateTerminal results
lastGotAfter(s) ==
  [k \in ShellTypes |->
     IF /\ lastGot[k].id # NoId
        /\ \E i \in (Len(heap) + 1)..Len(s.heap) : s.heap[i].shellType = k
     THEN [lastGot[k] EXCEPT !.replaced = TRUE]
     ELSE lastGot[k]]

\* the token states a caller may pass: no token, a fresh one, one already cancelled
TokenInputs == {"none", "fresh", "cancelled"}

\* the openTerminalProfile requests callers make
ProfileRequests ==
  { [profileName |-> P_WSL, comment |-> None, token |-> "none"],
    [profileName |-> P_WSL, comment |-> Some(C_build), token |-> "fresh"],
    [profileName |-> P_wsl, comment |-> None, token |-> "fresh"],
    [profileName |-> P_zsh, comment |-> None, token |-> "fresh"],
    [profileName |-> P_WSL, comment |-> None, token |-> "cancelled"],
    [profileName |-> P_wsl, comment |-> None, token |-> "cancelled"] }

OpenTerminalProfile(profileName, comment, token) ==
  LET profiles == collectProfileEntries
      hasToken == token # "none"
      c == Len(calls) + 1
      started == [waitForNextTerminalOpen(
                    EarlyCall(profileName, comment, hasToken, FALSE, NoResult))
                  EXCEPT !.pc = "awaitCommand", !.command = "pending",
                         !.profileToUse =
                            IF findProfile(profiles, profileName) # 0
                            THEN profiles[findProfile(profiles, profileName)].name
                            ELSE profileName]
      call == IF token = "cancelled"
              THEN EarlyCall(profileName, comment, TRUE, TRUE,
                             [NoResult EXCEPT !.kind = "Cancelled"])
              ELSE IF profileNotFound(profiles, profileName)
              THEN EarlyCall(profileName, comment, hasToken, FALSE,
                             [NoResult EXCEPT !.kind = "ProfileNotFound",
                                              !.available = availableNames(profiles)])
              ELSE started
  IN  /\ Len(calls) < MaxCalls
      /\ Len(heap) + ReservedIds < MaxIds
      /\ calls' = Append(calls, call)
      /\ UNCHANGED <<config, updated, terminals, pendingOpen, terminalsById,
                     terminalsByShell, terminalToId, heap, executions, disposables,
                     runs, now, lastGot>>

(* ------------------- the host during openTerminalProfile -------------- *)
\* the terminals the host may open: a name and, optionally, a shell path
HostTemplates ==
  { [name |-> P_WSL, shellPath |-> Some(S_wsl_exe)],
    [name |-> P_zsh, shellPath |-> None] }

\* workbench.action.terminal.newWithProfile creates the terminal of call c
HostCreatesTerminal(c, tmpl) ==
  /\ c \in 1..Len(calls)
  /\ calls[c].command = "pending"
  /\ calls[c].created = NoTerminal
  /\ Len(terminals) < MaxTerminals
  /\ terminals' = Append(terminals, HostTerminal(tmpl.name, tmpl.shellPath, FALSE))
  /\ pendingOpen' = pendingOpen \cup {Len(terminals) + 1}
  /\ calls' = [calls EXCEPT ![c].created = Len(terminals) + 1]
  /\ UNCHANGED <<config, updated, terminalsById, terminalsByShell,
                 terminalToId, heap, executions, disposables, runs, now, lastGot>>

\* a terminal opened by the user, not by any call
HostOpensTerminal(tmpl) ==
  /\ Len(terminals) < MaxTerminals
  /\ terminals' = Append(terminals, HostTerminal(tmpl.name, tmpl.shellPath, FALSE))
  /\ pendingOpen' = pendingOpen \cup {Len(terminals) + 1}
  /\ UNCHANGED <<config, updated, terminalsById, terminalsByShell,
                 terminalToId, heap, executions, disposables, calls, runs, now, lastGot>>

\* openTerminalProfile going on with the command's handle without pendingTerminal.dispose()
commandReturnedNoDispose(s, c, v) ==
  LET s1 == [s EXCEPT !.calls[c].command = IF v = NoTerminal THEN "nothing" ELSE "returned",
                      !.calls[c].commandValue = v]
  IN  IF v # NoTerminal
      THEN finishOpen(s1, c, v)
      ELSE IF s1.calls[c].settled
      THEN finishOpen(s1, c, s1.calls[c].value)
      ELSE [s1 EXCEPT !.calls[c].pc = "awaitWait"]

\* openTerminalProfile lines 350-358, run when the command's promise resolves with v
commandReturned(s, c, v) ==
  LET s1 == [s EXCEPT !.calls[c].command = IF v = NoTerminal THEN "nothing" ELSE "returned",
                      !.calls[c].commandValue = v]
  IN  IF v # NoTerminal
      THEN finishOpen([s1 EXCEPT !.calls[c] = disposeWait(@)], c, v)
      ELSE IF s1.calls[c].settled
      THEN finishOpen(s1, c, s1.calls[c].value)
      ELSE [s1 EXCEPT !.calls[c].pc = "awaitWait"]

\* the command of call c returns v: nothing, or the terminal it created
CommandReturns(c, v) ==
  /\ c \in 1..Len(calls)
  /\ calls[c].pc = "awaitCommand"
  /\ v = NoTerminal \/ (v = calls[c].created /\ v # NoTerminal)
  /\ LET s1 == commandReturned(State, c, v)
     IN  /\ WithinSent(s1)
         /\ Commit(s1)
         /\ lastGot' = lastGotAfter(s1)
  /\ UNCHANGED <<config, updated, pendingOpen, disposables, now>>

\* the command of call c rejects: the await throws out of openTerminalProfile
CommandThrows(c) ==
  /\ c \in 1..Len(calls)
  /\ calls[c].pc = "awaitCommand"
  /\ calls' = [calls EXCEPT ![c].pc = "done", ![c].command = "threw",
                            ![c].result = [NoResult EXCEPT !.kind = "CommandFailed"]]
  /\ UNCHANGED <<config, updated, terminals, pendingOpen, terminalsById,
                 terminalsByShell, terminalToId, heap, executions, disposables,
                 runs, now, lastGot>>

\* every live wait's listener hears that terminal h opened
RECURSIVE notifyListeners(_, _, _)
notifyListeners(s, h, c) ==
  IF c > Len(s.calls) THEN s
  ELSE LET call == s.calls[c]
           heard == IF call.listener THEN waitListener(call, h, s.terminals[h].name) ELSE call
           noted == IF /\ call.pc # "done"
                       /\ ~call.elapsed /\ ~call.cancelled
                       /\ call.firstMatch = NoTerminal
                       /\ includes(s.terminals[h].name, call.profileToUse)
                    THEN [heard EXCEPT !.firstMatch = h]
                    ELSE heard
       IN  notifyListeners([s EXCEPT !.calls[c] = noted], h, c + 1)

\* the host fires onDidOpenTerminal for terminal h
OnDidOpenTerminal(h) ==
  /\ h \in pendingOpen
  /\ pendingOpen' = pendingOpen \ {h}
  /\ LET s1 == resumeAwaiting(notifyListeners(State, h, 1), calls, 1)
     IN  /\ WithinSent(s1)
         /\ Commit(s1)
         /\ lastGot' = lastGotAfter(s1)
  /\ UNCHANGED <<config, updated, disposables, now>>

\* 3000 ms have passed since call c started its wait: its timer, still set, fires
After3000ms(c) ==
  /\ c \in 1..Len(calls)
  /\ calls[c].timeout
  /\ LET s1 == [State EXCEPT !.calls[c] = [waitTimeout(@) EXCEPT !.elapsed = TRUE]]
         s2 == resumeAwaiting(s1, calls, 1)
     IN  /\ WithinSent(s2)
         /\ Commit(s2)
         /\ lastGot' = lastGotAfter(s2)
  /\ UNCHANGED <<config, updated, pendingOpen, disposables, now>>

\* the caller cancels the token of call c
CancelToken(c) ==
  /\ c \in 1..Len(calls)
  /\ calls[c].hasToken
  /\ calls[c].pc # "done" \/ calls[c].cancel
  /\ ~calls[c].cancelled
  /\ LET early == /\ calls[c].pc # "done"
                  /\ calls[c].command # "returned"
                  /\ ~(calls[c].settled /\ calls[c].value # NoTerminal)
         s0 == [State EXCEPT !.calls[c].cancelled = TRUE,
                             !.calls[c].cancelledEarly = early]
         s1 == IF calls[c].cancel
               THEN [s0 EXCEPT !.calls[c] = waitCancelled(@)]
               ELSE s0
         s2 == resumeAwaiting(s1, calls, 1)
     IN  /\ WithinSent(s2)
         /\ Commit(s2)
         /\ lastGot' = lastGotAfter(s2)
  /\ UNCHANGED <<config, updated, pendingOpen, disposables, now>>


(* ------------------------------ executeCommand ------------------------ *)
cdInstruction(dir) == [op |-> "cd", flavor |-> "", var |-> "", value |-> dir]
commandInstruction(via, command) == [op |-> "command", flavor |-> "", var |-> via, value |-> command]

NoOutcome == [kind |-> "pending", exitCode |-> 0, error |-> ""]

\* a promise that its last resolve(...) / reject(...) decides
settleRunLast(s, r, outcome) ==
  [s EXCEPT !.runs[r].outcome = outcome, !.runs[r].pc = "done"]

\* resolve(...) / reject(...) of the promise of executeCommand: the first one decides,
\* and ExecuteInTerminalTool.invoke resumes with it
settleRun(s, r, outcome) ==
  IF s.runs[r].outcome.kind # "pending" THEN s
  ELSE [s EXCEPT !.runs[r].outcome = outcome, !.runs[r].pc = "done"]

\* TerminalPool.fallbackExecute
fallbackExecute(s, r) ==
  LET h == s.heap[s.runs[r].target].terminal
      s1 == sendText(s, h, <<commandInstruction("sendText", s.runs[r].command)>>)
  IN  [s1 EXCEPT !.runs[r].fallbackTimer = TRUE,
                 !.executions = MapSet(@, r, [run |-> r, timer |-> "fallback"])]

\* executeCommandInternal rejecting a cancelled run without executions.delete
executeCommandInternalKeepsEntry(s, r, throws) ==
  LET h == s.heap[s.runs[r].target].terminal
      s1 == [s EXCEPT !.runs[r].pc = "running", !.runs[r].settleTimer = FALSE,
                      !.runs[r].timeout = TRUE]
      s2 == IF s1.terminals[h].shellIntegration
            THEN IF throws
                 THEN fallbackExecute(s1, r)
                 ELSE [sendText(s1, h, <<commandInstruction("shellIntegration", s1.runs[r].command)>>)
                       EXCEPT !.runs[r].execution = TRUE, !.runs[r].listener = TRUE,
                              !.executions = MapSet(@, r, [run |-> r, timer |-> "timeout"])]
            ELSE fallbackExecute(s1, r)
  IN  IF s2.runs[r].cancelled
      THEN settleRun([s2 EXCEPT !.runs[r].timeout = FALSE],
                     r, [NoOutcome EXCEPT !.kind = "rejected", !.error = "ExecutionCancelled"])
      ELSE s2

\* TerminalPool.executeCommandInternal; `throws`: shellIntegration.executeCommand throws
executeCommandInternal(s, r, throws) ==
  LET h == s.heap[s.runs[r].target].terminal
      s1 == [s EXCEPT !.runs[r].pc = "running", !.runs[r].settleTimer = FALSE,
                      !.runs[r].timeout = TRUE]
      s2 == IF s1.terminals[h].shellIntegration
            THEN IF throws
                 THEN fallbackExecute(s1, r)
                 ELSE [sendText(s1, h, <<commandInstruction("shellIntegration", s1.runs[r].command)>>)
                       EXCEPT !.runs[r].execution = TRUE, !.runs[r].listener = TRUE,
                              !.executions = MapSet(@, r, [run |-> r, timer |-> "timeout"])]
            ELSE fallbackExecute(s1, r)
  IN  IF s2.runs[r].cancelled
      THEN settleRun([s2 EXCEPT !.runs[r].timeout = FALSE,
                                !.executions = MapDelete(@, r)],
                     r, [NoOutcome EXCEPT !.kind = "rejected", !.error = "ExecutionCancelled"])
      ELSE s2

\* a request with every field absent
NoInput ==
  [command |-> None, terminal_id |-> None, shell_type |-> None,
   working_dir |-> None, show_terminal |-> "undefined", comment |-> None]

\* TerminalPool.executeCommand, up to the first timer; r is the new run
\* (input and entryCancelled note the request the run was made for)
NewRun(terminalId, target, command, workingDir) ==
  [pc |-> "settle", terminalId |-> terminalId, target |-> target, command |-> command,
   workingDir |-> workingDir, cancelled |-> FALSE,
   settleTimer |-> FALSE, timeout |-> FALSE, fallbackTimer |-> FALSE,
   listener |-> FALSE, execution |-> FALSE, ended |-> FALSE,
   outcome |-> NoOutcome,
   input |-> NoInput, entryCancelled |-> FALSE]

\* executeCommand dispatching at once after the directory change
executeCommandNoDelay(s, terminalId, target, command, workingDir, throws) ==
  LET r == Len(s.runs) + 1
      s1 == [s EXCEPT !.runs = Append(@, NewRun(terminalId, target, command, workingDir)),
                      !.heap[target].lastUsedAt = now]
  IN  IF Truthy(workingDir)
      THEN executeCommandInternal(
             sendText(s1, s1.heap[target].terminal, <<cdInstruction(workingDir[1])>>),
             r, throws)
      ELSE executeCommandInternal(s1, r, throws)

executeCommand(s, terminalId, target, command, workingDir, throws) ==
  LET r == Len(s.runs) + 1
      s1 == [s EXCEPT !.runs = Append(@, NewRun(terminalId, target, command, workingDir)),
                      !.heap[target].lastUsedAt = now]
  IN  IF Truthy(workingDir)
      THEN [sendText(s1, s1.heap[target].terminal, <<cdInstruction(workingDir[1])>>)
            EXCEPT !.runs[r].settleTimer = TRUE]
      ELSE executeCommandInternal(s1, r, throws)

\* a caller that holds the registered session object `target` calls
\* TerminalPool.executeCommand(target, command, workingDir) on the pool
ExecuteCommand(target, command, workingDir, throws) ==
  /\ target \in {terminalsById[id] : id \in DOMAIN terminalsById}
  /\ Len(runs) < MaxExecs
  /\ LET s1 == executeCommand(State, Some(IdText(heap[target].id)), target,
                              command, workingDir, throws)
     IN  /\ WithinSent(s1)
         /\ Commit(s1)
  /\ UNCHANGED <<config, updated, pendingOpen, disposables, now, lastGot>>

(* ------------------------- ExecuteInTerminalTool ---------------------- *)
Whitespace == {" ", "\t", "\n", "\r"}

RECURSIVE trimStart(_)
trimStart(s) == IF s # <<>> /\ Head(s) \in Whitespace THEN trimStart(Tail(s)) ELSE s

RECURSIVE trimEnd(_)
trimEnd(s) ==
  IF s # <<>> /\ s[Len(s)] \in Whitespace THEN trimEnd(SubSeq(s, 1, Len(s) - 1)) ELSE s

\* String.prototype.trim
trim(s) == trimEnd(trimStart(s))
\* input.field?.trim()
trimOpt(o) == IF IsSome(o) THEN Some(trim(o[1])) ELSE None

startsWith(s, prefix) == Len(s) >= Len(prefix) /\ SubSeq(s, 1, Len(prefix)) = prefix

\* /^word\s*/ or /[;&|]\s*word\s*/ when needSpace is FALSE,
\* /^word\s+/ or /[;&|]\s*word\s+/ when it is TRUE
matchesDangerous(s, word, needSpace) ==
  LET After(i) == \* the word sits at s[i..], followed by what the pattern asks
        /\ i + Len(word) - 1 <= Len(s)
        /\ SubSeq(s, i, i + Len(word) - 1) = word
        /\ needSpace => (i + Len(word) <= Len(s) /\ s[i + Len(word)] \in Whitespace)
  IN  \/ After(1)
      \/ \E i \in 1..Len(s) :
           /\ s[i] \in {";", "&", "|"}
           /\ \E j \in (i + 1)..Len(s) :
                /\ \A x \in (i + 1)..(j - 1) : s[x] \in Whitespace
                /\ After(j)

\* ExecuteInTerminalTool.checkForDangerousCommands: the error, or "" for null
checkForDangerousCommands(command) ==
  LET trimmed == toLowerCase(trim(command))
  IN  IF matchesDangerous(trimmed, <<"e","x","i","t">>, FALSE) THEN "exit command is not permitted"
      ELSE IF matchesDangerous(trimmed, <<"k","i","l","l">>, TRUE) THEN "kill command is not permitted"
      ELSE IF matchesDangerous(trimmed, <<"t","a","s","k","k","i","l","l">>, TRUE)
      THEN "taskkill command is not permitted"
      ELSE ""

\* validateInput without its call of checkForDangerousCommands
validateInputNoSafety(input) ==
  LET isString(o) == IsSome(o) /\ o[1] # <<"#other">>
  IN  IF ~isString(input.command) \/ input.command[1] = <<>>
      THEN "command is required and must be a string"
      ELSE IF trim(input.command[1]) = <<>> THEN "command cannot be empty"
      ELSE IF ~isString(input.terminal_id) \/ input.terminal_id[1] = <<>>
      THEN "terminal_id is required and must be a string"
      ELSE IF trim(input.terminal_id[1]) = <<>> THEN "terminal_id cannot be empty"
      ELSE IF IsSome(input.shell_type) /\ ~isString(input.shell_type)
      THEN "shell_type must be a string when provided"
      ELSE IF Truthy(input.shell_type) /\ input.shell_type[1] \notin {ShellTypeText(k) : k \in ShellTypes}
      THEN "shell_type must be one of"
      ELSE IF Truthy(input.working_dir) /\ ~isString(input.working_dir)
      THEN "working_dir must be a string"
      ELSE IF Truthy(input.comment) /\ ~isString(input.comment)
      THEN "comment must be a string"
      ELSE IF input.show_terminal \notin {"undefined", "true", "false"}
      THEN "show_terminal must be a boolean"
      ELSE ""

\* ExecuteInTerminalTool.validateInput: the error, or "" for null.  A field holds
\* None (absent), Some(text), or Some("#other") for a value of another type.
NotAString == <<"#other">>
validateInput(input) ==
  LET isString(o) == IsSome(o) /\ o[1] # NotAString
  IN  IF ~isString(input.command) \/ input.command[1] = <<>>
      THEN "command is required and must be a string"
      ELSE IF trim(input.command[1]) = <<>> THEN "command cannot be empty"
      ELSE IF ~isString(input.terminal_id) \/ input.terminal_id[1] = <<>>
      THEN "terminal_id is required and must be a string"
      ELSE IF trim(input.terminal_id[1]) = <<>> THEN "terminal_id cannot be empty"
      ELSE IF IsSome(input.shell_type) /\ ~isString(input.shell_type)
      THEN "shell_type must be a string when provided"
      ELSE IF Truthy(input.shell_type) /\ input.shell_type[1] \notin {ShellTypeText(k) : k \in ShellTypes}
      THEN "shell_type must be one of"
      ELSE IF Truthy(input.working_dir) /\ ~isString(input.working_dir)
      THEN "working_dir must be a string"
      ELSE IF Truthy(input.comment) /\ ~isString(input.comment)
      THEN "comment must be a string"
      ELSE IF input.show_terminal \notin {"undefined", "true", "false"}
      THEN "show_terminal must be a boolean"
      ELSE checkForDangerousCommands(input.command[1])

\* a lookup that hands out some registered session when the id is unknown
getTerminalByIdOrAny(s, terminalId) ==
  IF \E k \in DOMAIN s.terminalsById : IdText(k) = terminalId
  THEN s.terminalsById[CHOOSE k \in DOMAIN s.terminalsById : IdText(k) = terminalId]
  ELSE IF DOMAIN s.terminalsById # {}
  THEN s.terminalsById[CHOOSE k \in DOMAIN s.terminalsById : TRUE]
  ELSE NoId

\* TerminalPool.getTerminalById with the id as text: the object, or NoId
getTerminalById(s, terminalId) ==
  IF \E k \in DOMAIN s.terminalsById : IdText(k) = terminalId
  THEN s.terminalsById[CHOOSE k \in DOMAIN s.terminalsById : IdText(k) = terminalId]
  ELSE NoId

\* how ExecuteInTerminalTool.invoke ends before it reaches executeCommand: "" if it does not
invokeError(s, input, cancelled) ==
  IF validateInput(input) # "" THEN "InvalidInput"
  ELSE IF cancelled THEN "Cancelled"
  ELSE IF getTerminalById(s, trim(input.terminal_id[1])) = NoId THEN "SessionNotFound"
  ELSE ""

\* ExecuteInTerminalTool.invoke from the lookup to the call of executeCommand
invokeRun(s, input, throws) ==
  LET targetTerminal == getTerminalById(s, trim(input.terminal_id[1]))
      comment == trimOpt(input.comment)
      s1 == IF Truthy(comment)
            THEN updateTerminalComment(s, s.heap[targetTerminal].id, comment[1])
            ELSE s
  IN  executeCommand(s1, trimOpt(input.terminal_id), targetTerminal,
                     trim(input.command[1]), trimOpt(input.working_dir), throws)

T_ls == <<"l","s">>
T_exit == <<"e","x","i","t">>
T_tmp == <<"/","t","m","p">>
C_test == <<"t","e","s","t">>

\* the requests the execute tool is sent
InvokeInputs ==
  { [command |-> Some(T_ls), terminal_id |-> Some(IdText(i)), shell_type |-> None,
     working_dir |-> o.wd, show_terminal |-> "undefined", comment |-> o.cm] :
      i \in 1..MaxIds,
      o \in {[wd |-> Some(T_tmp), cm |-> None], [wd |-> None, cm |-> Some(C_test)]} }
  \cup
  { [command |-> cmd, terminal_id |-> Some(IdText(1)), shell_type |-> None,
     working_dir |-> None, show_terminal |-> "undefined", comment |-> Some(C_test)] :
      cmd \in {None, Some(T_exit)} }

\* a well-formed request for session id-1, with a comment
GoodInput ==
  [command |-> Some(T_ls), terminal_id |-> Some(IdText(1)), shell_type |-> Some(<<"w","s","l">>),
   working_dir |-> None, show_terminal |-> "true", comment |-> Some(C_test)]

T_kill == <<"k","i","l","l"," ","1">>
T_taskkill == <<"l","s",";"," ","t","a","s","k","k","i","l","l"," ","1">>
T_blank == <<" ">>

\* GoodInput with one field spoilt, for each test of validateInput
BadInputs ==
  { [GoodInput EXCEPT !.command = v] :
      v \in {None, Some(<<>>), Some(NotAString), Some(T_blank),
              Some(T_exit), Some(T_kill), Some(T_taskkill)} }
  \cup { [GoodInput EXCEPT !.terminal_id = v] :
           v \in {None, Some(<<>>), Some(NotAString), Some(T_blank)} }
  \cup { [GoodInput EXCEPT !.shell_type = v] : v \in {Some(NotAString), Some(<<"z","s","h">>)} }
  \cup { [GoodInput EXCEPT !.working_dir = Some(NotAString)],
         [GoodInput EXCEPT !.comment = Some(NotAString)],
         [GoodInput EXCEPT !.show_terminal = "other"] }

\* ExecuteInTerminalTool.invoke throws before it reaches executeCommand
invokeFailed(s, input, err) ==
  [s EXCEPT !.runs = Append(@,
     [NewRun(IF IsSome(input.terminal_id) /\ input.terminal_id[1] # NotAString
             THEN trimOpt(input.terminal_id) ELSE None,
             NoId, <<>>, None)
      EXCEPT !.pc = "done",
             !.outcome = [NoOutcome EXCEPT !.kind = "rejected", !.error = err]])]

\* ExecuteInTerminalTool.invoke, up to its await
invoke(s, input, cancelled, throws) ==
  LET err == invokeError(s, input, cancelled)
  IN  IF err = "" THEN invokeRun(s, input, throws) ELSE invokeFailed(s, input, err)

Invoke(input, cancelled, throws) ==
  LET s1 == invoke(State, input, cancelled, throws)
  IN  /\ Len(runs) < MaxRuns
      /\ WithinSent(s1)
      /\ Commit([s1 EXCEPT !.runs[Len(s1.runs)].input = input,
                           !.runs[Len(s1.runs)].entryCancelled = cancelled])
      /\ UNCHANGED <<config, updated, pendingOpen, disposables, now, lastGot>>

\* the 200 ms settle delay of run r is over
After200ms(r, throws) ==
  /\ r \in 1..Len(runs)
  /\ runs[r].settleTimer
  /\ LET s1 == executeCommandInternal(State, r, throws)
     IN  /\ WithinSent(s1)
         /\ Commit(s1)
  /\ UNCHANGED <<config, updated, pendingOpen, disposables, now, lastGot>>

\* the 1000 ms timer of fallbackExecute fires
After1000ms(r) ==
  /\ r \in 1..Len(runs)
  /\ runs[r].fallbackTimer
  /\ Commit(settleRun([State EXCEPT !.runs[r].fallbackTimer = FALSE,
                                    !.runs[r].timeout = FALSE,
                                    !.executions = MapDelete(@, r)],
                      r, [NoOutcome EXCEPT !.kind = "resolved"]))
  /\ UNCHANGED <<config, updated, pendingOpen, disposables, now, lastGot>>

\* the 30000 ms timer of executeCommandInternal fires (after the 1000 ms one, if set)
After30000ms(r) ==
  /\ r \in 1..Len(runs)
  /\ runs[r].timeout
  /\ ~runs[r].fallbackTimer
  /\ Commit(settleRun([State EXCEPT !.runs[r].timeout = FALSE,
                                    !.executions = MapDelete(@, r)],
                      r, [NoOutcome EXCEPT !.kind = "rejected", !.error = "ExecutionTimeout"]))
  /\ UNCHANGED <<config, updated, pendingOpen, disposables, now, lastGot>>

\* the listener without its test of event.execution
endListenerAnyExecution(s, r, e, exitCode) ==
  IF s.runs[r].listener
  THEN settleRun([s EXCEPT !.runs[r].timeout = FALSE, !.runs[r].listener = FALSE,
                           !.executions = MapDelete(@, r)],
                 r, [NoOutcome EXCEPT !.kind = "resolved",
                                      !.exitCode = IF IsSome(exitCode) THEN exitCode[1] ELSE 0])
  ELSE s

\* the onDidEndTerminalShellExecution listener of run r hears the end of run e's execution
endListener(s, r, e, exitCode) ==
  IF s.runs[r].listener /\ r = e
  THEN settleRun([s EXCEPT !.runs[r].timeout = FALSE, !.runs[r].listener = FALSE,
                           !.executions = MapDelete(@, r)],
                 r, [NoOutcome EXCEPT !.kind = "resolved",
                                      !.exitCode = IF IsSome(exitCode) THEN exitCode[1] ELSE 0])
  ELSE s

RECURSIVE notifyEndListeners(_, _, _, _)
notifyEndListeners(s, e, exitCode, r) ==
  IF r > Len(s.runs) THEN s
  ELSE notifyEndListeners(endListener(s, r, e, exitCode), e, exitCode, r + 1)

\* the host reports that the execution submitted by run e ended
OnDidEndTerminalShellExecution(e, exitCode) ==
  /\ e \in 1..Len(runs)
  /\ runs[e].execution
  /\ ~runs[e].ended
  /\ Commit(notifyEndListeners([State EXCEPT !.runs[e].ended = TRUE], e, exitCode, 1))
  /\ UNCHANGED <<config, updated, pendingOpen, disposables, now, lastGot>>

\* the caller cancels the token of run r
CancelRun(r) ==
  /\ r \in 1..Len(runs)
  /\ runs[r].pc # "done"
  /\ ~runs[r].cancelled
  /\ Commit([State EXCEPT !.runs[r].cancelled = TRUE])
  /\ UNCHANGED <<config, updated, pendingOpen, disposables, now, lastGot>>

\* shell integration becomes available in terminal h
ShellIntegrationActivates(h) ==
  /\ h \in Handles
  /\ ~terminals[h].shellIntegration
  /\ Commit([State EXCEPT !.terminals[h].shellIntegration = TRUE])
  /\ UNCHANGED <<config, updated, pendingOpen, disposables, now, lastGot>>

(* -------------------------------- dispose ----------------------------- *)
\* managed.terminal.dispose() for every value of terminalsById
RECURSIVE disposeTerminals(_, _)
disposeTerminals(s, ids) ==
  IF ids = {} THEN s
  ELSE LET id == CHOOSE x \in ids : TRUE
           h == s.heap[s.terminalsById[id]].terminal
       IN  disposeTerminals([s EXCEPT !.terminals[h].disposed = TRUE,
                                      !.terminals[h].closed = TRUE], ids \ {id})

\* clearTimeout(exec.timer) for every value of executions
RECURSIVE clearExecutionTimers(_, _)
clearExecutionTimers(s, keys) ==
  IF keys = {} THEN s
  ELSE LET k == CHOOSE x \in keys : TRUE
           e == s.executions[k]
       IN  clearExecutionTimers(
             IF e.timer = "fallback"
             THEN [s EXCEPT !.runs[e.run].fallbackTimer = FALSE]
             ELSE [s EXCEPT !.runs[e.run].timeout = FALSE],
             keys \ {k})

\* dispose without the two clear() calls on the indices
disposeKeepsIndices(s) ==
  LET s1 == disposeTerminals(s, DOMAIN s.terminalsById)
      s3 == clearExecutionTimers(s1, DOMAIN s1.executions)
  IN  [s3 EXCEPT !.executions = EmptyMap]

\* TerminalPool.dispose
dispose(s) ==
  LET s1 == disposeTerminals(s, DOMAIN s.terminalsById)
      s2 == [s1 EXCEPT !.terminalsById = EmptyMap, !.terminalsByShell = EmptyMap]
      s3 == clearExecutionTimers(s2, DOMAIN s2.executions)
  IN  [s3 EXCEPT !.executions = EmptyMap]

Dispose ==
  /\ Commit(dispose(State))
  /\ disposables' = <<>>
  /\ lastGot' = [k \in ShellTypes |-> [id |-> NoId, replaced |-> FALSE]]
  /\ UNCHANGED <<config, updated, pendingOpen, now>>


(* ---------------------------- specifications -------------------------- *)
\* the profile requests of the registry specification
BasicRequests == {rq \in ProfileRequests : rq.token = "none" \/ rq.profileName = P_zsh}

\* the registry under every operation that changes it
Next ==
  \/ \E k \in RequestedShells : GetOrCreateTerminal(k, None, None)
  \/ \E h \in Handles : OnDidCloseTerminal(h)
  \/ \E rq \in BasicRequests : OpenTerminalProfile(rq.profileName, rq.comment, rq.token)
  \/ \E c \in 1..MaxCalls, tmpl \in HostTemplates : HostCreatesTerminal(c, tmpl)
  \/ \E c \in 1..MaxCalls, v \in 0..MaxTerminals : CommandReturns(c, v)
  \/ \E h \in 1..MaxTerminals : OnDidOpenTerminal(h)
  \/ \E c \in 1..MaxCalls : After3000ms(c)
  \/ Dispose

Spec == Init /\ [][Next]_vars

\* the creation race of openTerminalProfile against the host
NextRace ==
  \/ \E rq \in ProfileRequests : OpenTerminalProfile(rq.profileName, rq.comment, rq.token)
  \/ \E c \in 1..MaxCalls, tmpl \in HostTemplates : HostCreatesTerminal(c, tmpl)
  \/ \E tmpl \in HostTemplates : HostOpensTerminal(tmpl)
  \/ \E c \in 1..MaxCalls, v \in 0..MaxTerminals : CommandReturns(c, v)
  \/ \E c \in 1..MaxCalls : CommandThrows(c)
  \/ \E h \in 1..MaxTerminals : OnDidOpenTerminal(h)
  \/ \E c \in 1..MaxCalls : After3000ms(c)
  \/ \E c \in 1..MaxCalls : CancelToken(c)
  \/ \E h \in Handles : OnDidCloseTerminal(h)

SpecRace == Init /\ [][NextRace]_vars

\* the openTerminalProfile requests that carry a comment
CommentRequests == {rq \in ProfileRequests : rq.comment # None}

\* creation, reuse and comment updates, with the clock
NextMeta ==
  \/ \E cm \in MetaComments : GetOrCreateTerminal("wsl", cm, None)
  \/ \E id \in 1..MaxIds, cm \in UpdateComments : UpdateTerminalComment(id, cm)
  \/ \E h \in Handles : OnDidCloseTerminal(h)
  \/ \E rq \in CommentRequests : OpenTerminalProfile(rq.profileName, rq.comment, rq.token)
  \/ \E c \in 1..MaxCalls, tmpl \in HostTemplates : HostCreatesTerminal(c, tmpl)
  \/ \E c \in 1..MaxCalls : CommandReturns(c, 0)
  \/ \E h \in 1..MaxTerminals : OnDidOpenTerminal(h)
  \/ Tick

SpecMeta == Init /\ [][NextMeta]_vars

\* the execute tool and the command executor over sessions of the pool
\* (requests stop arriving once the extension has disposed the pool)
NextExec ==
  \/ \E k \in RequestedShells : disposables # <<>> /\ GetOrCreateTerminal(k, None, None)
  \/ \E h \in Handles : OnDidCloseTerminal(h)
  \/ \E input \in InvokeInputs, cancelled \in BOOLEAN, throws \in BOOLEAN :
       disposables # <<>> /\ Invoke(input, cancelled, throws)
  \/ \E r \in 1..MaxRuns, throws \in BOOLEAN : After200ms(r, throws)
  \/ \E r \in 1..MaxRuns : After1000ms(r)
  \/ \E r \in 1..MaxRuns : After30000ms(r)
  \/ \E r \in 1..MaxRuns, code \in {None, Some(1)} :
       OnDidEndTerminalShellExecution(r, code)
  \/ \E r \in 1..MaxRuns : CancelRun(r)
  \/ \E h \in Handles : ShellIntegrationActivates(h)
  \/ Tick
  \/ Dispose

SpecExec == Init /\ [][NextExec]_vars


\* sessions of every kind and launch path, with no profile catalog configured
InitDetect == Init /\ config = [windows |-> <<>>, linux |-> <<>>, osx |-> <<>>]

NextDetect ==
  \/ \E k \in ShellTypes : GetOrCreateTerminal(k, None, None)
  \/ \E name \in DetectNames : OpenTerminalProfile(name, None, "none")
  \/ \E c \in 1..MaxCalls, tmpl \in DetectTemplates : HostCreatesTerminal(c, tmpl)
  \/ \E c \in 1..MaxCalls, v \in 0..MaxTerminals : CommandReturns(c, v)
  \/ \E h \in 1..MaxTerminals : OnDidOpenTerminal(h)

SpecDetect == InitDetect /\ [][NextDetect]_vars

\* every comment of at most MaxComment characters over a letter, the two
\* characters quoteForShell escapes and the two line-break characters
QuoteComments ==
  UNION {[1..n -> {"a", "\"", "\\", "\n", "\r"}] : n \in 0..MaxComment}

\* one session whose comment is set at creation, on reuse and by updates
NextQuote ==
  \/ \E cm \in QuoteComments : GetOrCreateTerminal("gitbash", Some(cm), None)
  \/ \E id \in 1..MaxIds, cm \in QuoteComments : UpdateTerminalComment(id, cm)

SpecQuote == Init /\ [][NextQuote]_vars

\* getOrCreateTerminal with its options given, omitted or empty, and the clock
NextReuse ==
  \/ \E k \in RequestedShells, cm \in Comments \cup {Some(<<>>)},
        pn \in {None, Some(<<>>), Some(P_zsh)} : GetOrCreateTerminal(k, cm, pn)
  \/ Tick

SpecReuse == Init /\ [][NextReuse]_vars

\* openTerminalProfile calls that start before the extension disposes the pool
NextShutdown ==
  \/ \E rq \in BasicRequests :
       disposables # <<>> /\ OpenTerminalProfile(rq.profileName, rq.comment, rq.token)
  \/ \E c \in 1..MaxCalls, tmpl \in HostTemplates : HostCreatesTerminal(c, tmpl)
  \/ \E c \in 1..MaxCalls, v \in 0..MaxTerminals : CommandReturns(c, v)
  \/ \E h \in 1..MaxTerminals : OnDidOpenTerminal(h)
  \/ \E c \in 1..MaxCalls : After3000ms(c)
  \/ \E h \in Handles : OnDidCloseTerminal(h)
  \/ Dispose

SpecShutdown == Init /\ [][NextShutdown]_vars

\* one executeCommand call on a newly created session against close
\* notifications and dispose(); the timers of the call fire when they are due (setTimeout), while the host
\* need not ever deliver a completion event
NextSettle ==
  \/ /\ disposables # <<>> /\ "wsl" \notin DOMAIN terminalsByShell
     /\ GetOrCreateTerminal("wsl", None, None)
  \/ \E target \in 1..MaxIds, wd \in {None, Some(T_tmp)}, throws \in BOOLEAN :
       disposables # <<>> /\ Len(runs) < MaxRuns /\ ExecuteCommand(target, T_ls, wd, throws)
  \/ \E r \in 1..MaxRuns, throws \in BOOLEAN : After200ms(r, throws)
  \/ \E r \in 1..MaxRuns : After1000ms(r)
  \/ \E r \in 1..MaxRuns : After30000ms(r)
  \/ \E r \in 1..MaxRuns, code \in {None, Some(1)} :
       OnDidEndTerminalShellExecution(r, code)
  \/ \E h \in Handles : ShellIntegrationActivates(h)
  \/ \E h \in Handles : OnDidCloseTerminal(h)
  \/ Dispose

SpecSettle ==
  /\ Init /\ [][NextSettle]_vars
  /\ \A r \in 1..MaxRuns :
       /\ WF_vars(\E throws \in BOOLEAN : After200ms(r, throws))
       /\ WF_vars(After1000ms(r))
       /\ WF_vars(After30000ms(r))

\* the execute tool under well-formed and malformed requests
NextTool ==
  \/ \E k \in RequestedShells : GetOrCreateTerminal(k, None, None)
  \/ \E input \in BadInputs \cup {GoodInput}, cancelled \in BOOLEAN :
       Invoke(input, cancelled, FALSE)
  \/ \E r \in 1..MaxRuns : After1000ms(r)
  \/ \E h \in Handles : OnDidCloseTerminal(h)
  \/ Tick

SpecTool == Init /\ [][NextTool]_vars

\* runs of executeCommand side by side, on one session and on two
NextRuns ==
  \/ \E k \in RequestedShells : GetOrCreateTerminal(k, None, None)
  \/ \E target \in 1..MaxIds, wd \in {None, Some(T_tmp)}, throws \in BOOLEAN :
       ExecuteCommand(target, T_ls, wd, throws)
  \/ \E r \in 1..MaxExecs, throws \in BOOLEAN : After200ms(r, throws)
  \/ \E r \in 1..MaxExecs : After1000ms(r)
  \/ \E r \in 1..MaxExecs : After30000ms(r)
  \/ \E r \in 1..MaxExecs, code \in {None, Some(1)} :
       OnDidEndTerminalShellExecution(r, code)
  \/ \E h \in Handles : ShellIntegrationActivates(h)

SpecRuns == Init /\ [][NextRuns]_vars

\* sessions of both origins, and the commands sent to them
NextOrder ==
  \/ GetOrCreateTerminal("wsl", None, None)
  \/ \E rq \in CommentRequests : OpenTerminalProfile(rq.profileName, rq.comment, rq.token)
  \/ \E c \in 1..MaxCalls, tmpl \in HostTemplates : HostCreatesTerminal(c, tmpl)
  \/ \E c \in 1..MaxCalls, v \in 0..MaxTerminals : CommandReturns(c, v)
  \/ \E h \in 1..MaxTerminals : OnDidOpenTerminal(h)
  \/ \E target \in 1..MaxIds, wd \in {None, Some(T_tmp)} :
       ExecuteCommand(target, T_ls, wd, FALSE)
  \/ \E r \in 1..MaxExecs : After200ms(r, FALSE)
  \/ \E r \in 1..MaxExecs : After1000ms(r)

SpecOrder == Init /\ [][NextOrder]_vars

(* ------------------------------ the registry -------------------------- *)
\* the ids of the sessions registered by the step
NewIds == (Len(heap) + 1)..Len(heap')

C2IndexInvariant ==
  \A k \in DOMAIN terminalsByShell :
    LET id == terminalsByShell[k]
    IN  /\ id \in DOMAIN terminalsById
        /\ terminalsById[id] = id
        /\ heap[id].id = id
        /\ heap[id].shellType = k

\* a session of a kind was closed and removed while the kind has a current session
C2Witness ==
  /\ disposables # <<>>
  /\ \E k \in DOMAIN terminalsByShell, i \in 1..Len(heap) :
        /\ heap[i].shellType = k
        /\ i \notin DOMAIN terminalsById
        /\ terminals[heap[i].terminal].closed
        /\ heap[terminalsByShell[k]].profileName # None

C3WitnessUnknownKind ==
  \E c \in 1..Len(calls) :
    /\ calls[c].result.kind = "ok"
    /\ heap[calls[c].result.id].shellType = "undefined"

\* C4: on a session-closed notification for a registered handle, the session's id
\* is removed from terminalsById, the terminalsByShell entry of its kind is removed
\* if and only if that entry is this same session, and the handle's association is
\* removed, all in the one step; every other entry stays.  A notification for a
\* handle that is not registered changes nothing.
C4ClosedRemoval ==
  [][\A h \in Handles :
       (OnDidCloseTerminal(h) /\ disposables # <<>>) =>
         IF h \in DOMAIN terminalToId
         THEN LET id == terminalToId[h]
              IN  /\ DOMAIN terminalsById' = DOMAIN terminalsById \ {id}
                  /\ \A i \in DOMAIN terminalsById' : terminalsById'[i] = terminalsById[i]
                  /\ DOMAIN terminalsByShell' =
                       {k \in DOMAIN terminalsByShell : terminalsByShell[k] # id}
                  /\ \A k \in DOMAIN terminalsByShell' :
                       terminalsByShell'[k] = terminalsByShell[k]
                  /\ id \in DOMAIN terminalsById =>
                       \A k \in DOMAIN terminalsByShell :
                         terminalsByShell[k] = id => heap[id].shellType = k
                  /\ DOMAIN terminalToId' = DOMAIN terminalToId \ {h}
                  /\ \A x \in DOMAIN terminalToId' : terminalToId'[x] = terminalToId[x]
                  /\ heap' = heap
         ELSE /\ terminalsById' = terminalsById
              /\ terminalsByShell' = terminalsByShell
              /\ terminalToId' = terminalToId
              /\ heap' = heap]_vars

\* a session of kind k that is not the current one was closed and removed while
\* the current entry of k stayed, and an unregistered terminal was closed as well
C4Witness ==
  /\ disposables # <<>>
  /\ \E i \in 1..Len(heap) :
        /\ terminals[heap[i].terminal].closedAs = "nonCurrent"
        /\ i \notin DOMAIN terminalsById
        /\ heap[i].shellType \in DOMAIN terminalsByShell
        /\ terminalsByShell[heap[i].shellType] \in DOMAIN terminalsById
        /\ heap[i].terminal \notin DOMAIN terminalToId


(* --------------------------- the creation race ------------------------ *)
\* the registry is the same before and after the step
RegistryUnchanged ==
  UNCHANGED <<terminalsById, terminalsByShell, terminalToId, heap>>

\* call c went on with the handle its creation command returned
DirectWin(c) ==
  /\ calls[c].pc = "done"
  /\ ~calls[c].listener /\ ~calls[c].cancel /\ ~calls[c].timeout
  /\ calls[c].result.kind = "ok"
  /\ calls[c].result.id \in 1..Len(heap)
  /\ heap[calls[c].result.id].terminal = calls[c].commandValue
  /\ heap[calls[c].result.id].profileName = Some(calls[c].profileToUse)

\* C5: when the creation command returns a handle, the wait is disposed (its
\* session-opened subscription, its cancellation subscription and its 3000 ms
\* timer), the session is registered with the command's handle, and no later
\* step, a matching session-opened notification included, changes the call's
\* outcome; such a notification does not change the registry.
C5DirectWin ==
  /\ [](\A c \in 1..Len(calls) : calls[c].command = "returned" => DirectWin(c))
  /\ [][/\ \A c \in 1..Len(calls) : calls[c].command = "returned" => calls'[c] = calls[c]
        /\ \A h \in Handles :
             (OnDidOpenTerminal(h) /\ \A c \in 1..Len(calls) : calls[c].command = "returned")
               => RegistryUnchanged]_vars

\* a matching session-opened notification arrived after the command had returned
\* the handle: it was delivered, and not while the call was waiting
C5Witness ==
  \E c \in 1..Len(calls) :
    /\ calls[c].command = "returned"
    /\ ~calls[c].elapsed /\ ~calls[c].cancelled
    /\ calls[c].firstMatch = NoTerminal
    /\ calls[c].commandValue \notin pendingOpen
    /\ includes(terminals[calls[c].commandValue].name, calls[c].profileToUse)
    /\ calls[c].result.id \in DOMAIN terminalsById

\* C6: when the creation command returns nothing and a session-opened
\* notification whose name contains the resolved profile name arrives while the
\* wait is pending (within its 3000 ms, the command still pending or not), the
\* call succeeds and registers a session whose handle is that notification's and
\* whose profileName is the resolved profile name; a notification whose name does
\* not contain the profile name does not resolve the wait.
C6FallbackWin ==
  /\ [](\A c \in 1..Len(calls) :
          (calls[c].command = "nothing" /\ calls[c].firstMatch # NoTerminal)
            => /\ calls[c].pc = "done"
               /\ calls[c].result.kind = "ok"
               /\ calls[c].result.id \in 1..Len(heap)
               /\ heap[calls[c].result.id].terminal = calls[c].firstMatch
               /\ heap[calls[c].result.id].profileName = Some(calls[c].profileToUse)
               /\ includes(terminals[calls[c].firstMatch].name, calls[c].profileToUse))
  /\ [][\A h \in Handles : OnDidOpenTerminal(h) =>
          \A c \in 1..Len(calls) :
            ~includes(terminals[h].name, calls[c].profileToUse) => calls'[c] = calls[c]]_vars

\* the fallback won with a notification that came while the command was pending,
\* after a notification of another name had been ignored
C6Witness ==
  \E c \in 1..Len(calls) :
    /\ calls[c].command = "nothing"
    /\ calls[c].firstMatch # NoTerminal
    /\ calls[c].result.kind = "ok"
    /\ calls[c].result.id \in DOMAIN terminalsById
    /\ \E h \in Handles :
          /\ h \notin pendingOpen
          /\ ~includes(terminals[h].name, calls[c].profileToUse)

\* C7: when the creation command returns nothing and no matching session-opened
\* notification arrives within the 3000 ms, the call fails with
\* SessionCreationFailed, registers no session, and no timer or subscription of
\* the call is live once it has failed.
C7TotalFailure ==
  /\ [](\A c \in 1..Len(calls) :
          (/\ calls[c].command = "nothing"
           /\ calls[c].firstMatch = NoTerminal
           /\ calls[c].elapsed \/ calls[c].pc = "done")
            => /\ calls[c].pc = "done"
               /\ calls[c].result.kind = "SessionCreationFailed"
               /\ calls[c].result.id = NoId
               /\ ~calls[c].listener /\ ~calls[c].cancel /\ ~calls[c].timeout)
  /\ [][\A c \in 1..Len(calls) :
          (calls[c].pc # "done" /\ calls'[c].result.kind = "SessionCreationFailed")
            => RegistryUnchanged]_vars

\* the 3000 ms passed with the command returning nothing and no matching
\* notification, though a terminal of another name had opened
C7Witness ==
  \E c \in 1..Len(calls) :
    /\ calls[c].command = "nothing"
    /\ calls[c].elapsed
    /\ ~calls[c].cancelled
    /\ calls[c].firstMatch = NoTerminal
    /\ calls[c].result.kind = "SessionCreationFailed"
    /\ \E h \in Handles : h \notin pendingOpen

\* C8: when the cancel token fires before the creation command or a matching
\* notification has yielded a handle, the call fails with SessionCreationFailed
\* and registers no session, whatever the creation command returns afterwards.
C8CancelledFails ==
  \A c \in 1..Len(calls) :
    (calls[c].cancelledEarly /\ calls[c].pc = "done"
       /\ calls[c].command \in {"returned", "nothing"})
      => /\ calls[c].result.kind = "SessionCreationFailed"
         /\ calls[c].result.id = NoId
\* (the code registers the session and the call succeeds when the command
\* returns a handle after the cancellation)

\* the names of the catalog, over its three platform buckets
CatalogNames ==
  UNION {{config[p][i] : i \in 1..Len(config[p])} : p \in {"windows", "linux", "osx"}}

\* the step starts an openTerminalProfile call
CallStarts == Len(calls') = Len(calls) + 1

\* C9 (as amended): openTerminalProfile(name, comment, token) fails with
\* ProfileNotFound exactly when the token is not already cancelled at entry, the
\* catalog is non-empty and no entry's name equals name case-sensitively (a call
\* whose token is already cancelled fails as cancelled before the lookup; with an
\* empty catalog creation proceeds with the requested name).  The error lists
\* every catalog name, and on this failure no wait is started, no creation
\* command is issued and the registry is unchanged.
C9ProfileNotFound ==
  [][CallStarts =>
       LET call == calls'[Len(calls')]
           entryCancelled == call.hasToken /\ call.cancelled
           noMatch == CatalogNames # {} /\ call.profileName \notin CatalogNames
       IN  /\ (call.result.kind = "ProfileNotFound") = (~entryCancelled /\ noMatch)
           /\ call.result.kind = "ProfileNotFound" =>
                /\ {call.result.available[i] : i \in 1..Len(call.result.available)}
                     = CatalogNames
                /\ Len(call.result.available)
                     = Len(config.windows) + Len(config.linux) + Len(config.osx)
                /\ call.pc = "done"
                /\ ~call.listener /\ ~call.cancel /\ ~call.timeout
                /\ call.command = "notIssued"
           /\ entryCancelled =>
                call.result.kind = "Cancelled" /\ call.command = "notIssued"
           /\ (~entryCancelled /\ ~noMatch) =>
                /\ call.command = "pending" /\ call.listener /\ call.timeout
                /\ call.profileToUse = call.profileName
           /\ RegistryUnchanged
           /\ terminals' = terminals]_vars

\* C9 as stated: the call fails with ProfileNotFound exactly when the catalog is
\* non-empty and has no entry whose name equals name case-sensitively.
C9AsStated ==
  [][CallStarts =>
       LET call == calls'[Len(calls')]
       IN  (call.result.kind = "ProfileNotFound")
             = (CatalogNames # {} /\ call.profileName \notin CatalogNames)]_vars

\* 'wsl' was asked for with the catalog holding 'WSL' and 'zsh': the call failed
\* with ProfileNotFound listing both
C9Witness ==
  \E c \in 1..Len(calls) :
    /\ calls[c].result.kind = "ProfileNotFound"
    /\ calls[c].profileName = P_wsl
    /\ calls[c].result.available = <<P_WSL, P_zsh>>
    /\ \E h \in Handles : TRUE


(* ------------------------------ the execute tool ---------------------- *)
\* the terminal_id of the request names a session of the registry
Registered(input) ==
  /\ IsSome(input.terminal_id)
  /\ \E id \in DOMAIN terminalsById : IdText(id) = trim(input.terminal_id[1])

\* C10: ExecuteInTerminalTool.invoke with a valid request, not cancelled, whose
\* terminal_id is not in the registry fails with SessionNotFound and leaves the
\* pool unchanged: no registry entry created, no comment or lastUsedAt modified,
\* no instruction sent to any terminal; it fails with SessionNotFound in no other
\* case.  No step of the execute tool, whatever its outcome, adds a registry entry.
C10SessionNotFound ==
  [][/\ Len(runs') = Len(runs) + 1 =>
           LET run == runs'[Len(runs')]
               unknown == /\ validateInput(run.input) = ""
                          /\ ~run.entryCancelled
                          /\ ~Registered(run.input)
           IN  /\ (run.outcome.kind = "rejected" /\ run.outcome.error = "SessionNotFound")
                    = unknown
               /\ unknown =>
                    /\ run.pc = "done"
                    /\ RegistryUnchanged
                    /\ terminals' = terminals
                    /\ executions' = executions
                    /\ \A r \in 1..Len(runs) : runs'[r] = runs[r]
     /\ runs' # runs =>
          /\ DOMAIN terminalsById' \subseteq DOMAIN terminalsById
          /\ DOMAIN terminalsByShell' \subseteq DOMAIN terminalsByShell
          /\ DOMAIN terminalToId' \subseteq DOMAIN terminalToId
          /\ Len(heap') = Len(heap)
          /\ Len(terminals') = Len(terminals)]_vars

\* a command was sent to the id of a session that had been closed, while another
\* session, last used earlier, was registered: it failed with SessionNotFound
C10Witness ==
  \E r \in 1..Len(runs), i \in 1..Len(heap), j \in DOMAIN terminalsById :
    /\ runs[r].outcome.error = "SessionNotFound"
    /\ runs[r].terminalId = Some(IdText(i))
    /\ i \notin DOMAIN terminalsById
    /\ terminals[heap[i].terminal].closedAs = "current"
    /\ heap[j].lastUsedAt < now

(* ------------------------------ the metadata -------------------------- *)
\* the comment of a session, empty when none is set
CommentOf(m) == IF IsSome(m.comment) THEN m.comment[1] ELSE <<>>

\* the two assignments that match registry entry m, whose terminal has these options
MetadataPair(m, options) ==
  LET flavor == getShellFlavor(m.shellType, options)
  IN  << [op |-> "env", flavor |-> flavor, var |-> PROMPT_ID_ENV,
          value |-> quoteForShell(IdText(m.id))],
         [op |-> "env", flavor |-> flavor, var |-> PROMPT_COMMENT_ENV,
          value |-> quoteForShell(CommentOf(m))] >>

\* the positions in texts of an assignment of HDPROMPT_ID
IdAssignments(texts) ==
  {i \in 1..Len(texts) : texts[i].op = "env" /\ texts[i].var = PROMPT_ID_ENV}

Max(S) == CHOOSE x \in S : \A y \in S : y <= x

\* the last emitted pair of assignments in texts matches the pair
LastPairIs(texts, pair) ==
  /\ IdAssignments(texts) # {}
  /\ LET last == Max(IdAssignments(texts))
     IN  /\ last < Len(texts)
         /\ <<texts[last], texts[last + 1]>> = pair

\* a value that can stand between double quotes: no line break, and every
\* quote preceded by a backslash
Escaped(v) ==
  \A i \in 1..Len(v) :
    /\ v[i] \notin {"\n", "\r"}
    /\ v[i] = "\"" => (i > 1 /\ v[i - 1] = "\\")

\* the instructions the step sent to terminal h
SentTo(h) ==
  IF h \in 1..Len(terminals)
  THEN SubSeq(terminals'[h].sentTexts, Len(terminals[h].sentTexts) + 1,
              Len(terminals'[h].sentTexts))
  ELSE terminals'[h].sentTexts

\* the step sent the pair of session id, as the registry has it after the step
StampedBy(id) ==
  LET m == heap'[id]
      sent == SentTo(m.terminal)
      pair == MetadataPair(m, terminals'[m.terminal].creationOptions)
  IN  /\ Len(sent) >= 2
      /\ \E i \in 1..(Len(sent) - 1) : <<sent[i], sent[i + 1]>> = pair
      /\ Escaped(pair[1].value) /\ Escaped(pair[2].value)

\* C11: every creation (getOrCreateTerminal, openTerminalProfile), every reuse
\* and every successful updateTerminalComment sends the session an
\* HDPROMPT_ID and an HDPROMPT_COMMENT assignment whose values are the escaped
\* id and the escaped comment the registry has after the operation (empty when
\* no comment is set); and in every state the last pair emitted to a
\* registered session matches its registry entry.
C11MetadataComplete ==
  /\ [](\A id \in DOMAIN terminalsById :
          LET m == heap[terminalsById[id]]
          IN  LastPairIs(terminals[m.terminal].sentTexts,
                         MetadataPair(m, terminals[m.terminal].creationOptions)))
  /\ [][/\ \A id \in NewIds : StampedBy(id)
        /\ \A cm \in MetaComments :
             (terminals' # terminals /\ GetOrCreateTerminal("wsl", cm, None))
               => StampedBy(terminalsByShell'["wsl"])
        /\ \A id \in DOMAIN terminalsById, cm \in UpdateComments :
             (terminals' # terminals /\ UpdateTerminalComment(id, cm))
               => (StampedBy(terminalsById[id])
                   /\ heap'[terminalsById[id]].comment = Some(cm))]_vars

\* texts holds the id assignment of session id, followed by a comment assignment
HasStamp(texts, id) ==
  \E i \in 1..(Len(texts) - 1) :
    /\ texts[i].op = "env" /\ texts[i].var = PROMPT_ID_ENV
    /\ texts[i].value = quoteForShell(IdText(id))
    /\ texts[i + 1].op = "env" /\ texts[i + 1].var = PROMPT_COMMENT_ENV

\* the texts sent to the terminal of session id
TextsOf(id) == terminals[heap[id].terminal].sentTexts

\* texts holds an instruction of executeCommand
HasCommand(texts) == \E i \in 1..Len(texts) : texts[i].op \in {"cd", "command"}

\* C12: a session that getOrCreateTerminal or openTerminalProfile has returned
\* has been sent its id and comment assignments; and when executeCommand
\* sends an instruction (the directory change or the command) for a session,
\* that session's terminal had been sent the session's assignments before.
C12StampedBeforeReturned ==
  /\ [](/\ \A k \in ShellTypes : lastGot[k].id # NoId => HasStamp(TextsOf(lastGot[k].id), lastGot[k].id)
        /\ \A c \in 1..Len(calls) :
             calls[c].result.kind = "ok" => HasStamp(TextsOf(calls[c].result.id), calls[c].result.id))
  /\ [][\A r \in 1..Len(runs') :
          LET id == runs'[r].target
          IN  (/\ r > Len(runs) \/ runs'[r] # runs[r]
               /\ HasCommand(SentTo(heap'[id].terminal)))
                => (id \in 1..Len(heap) /\ HasStamp(TextsOf(id), id))]_vars

\* a session that openTerminalProfile returned has been sent a command, and
\* so has one that getOrCreateTerminal returned
C12Witness ==
  /\ \E r \in 1..Len(runs) :
       /\ heap[runs[r].target].profileName # None
       /\ \E c \in 1..Len(calls) : calls[c].result.kind = "ok" /\ calls[c].result.id = runs[r].target
       /\ HasCommand(TextsOf(runs[r].target))
  /\ \E r \in 1..Len(runs) :
       /\ lastGot["wsl"].id = runs[r].target
       /\ HasCommand(TextsOf(runs[r].target))


\* C13: across every operation (getOrCreateTerminal reuse, updateTerminalComment,
\* executeCommand) the lastUsedAt of a session never decreases, it is never
\* ahead of the clock nor behind createdAt, and createdAt never changes.
C13LastUsedMonotonic ==
  /\ [](\A id \in 1..Len(heap) :
          heap[id].createdAt <= heap[id].lastUsedAt /\ heap[id].lastUsedAt <= now)
  /\ [][\A id \in 1..Len(heap) :
          /\ heap'[id].lastUsedAt >= heap[id].lastUsedAt
          /\ heap'[id].createdAt = heap[id].createdAt]_vars

\* a session used after the clock moved: a command ran on it with a new comment,
\* and getOrCreateTerminal returned it
C13Witness ==
  \E id \in DOMAIN terminalsById :
    /\ heap[id].lastUsedAt > heap[id].createdAt
    /\ heap[id].comment = Some(C_test)
    /\ \E r \in 1..Len(runs) : runs[r].target = id
    /\ \E k \in ShellTypes : lastGot[k].id = id


(* ------------------------------- the runs ----------------------------- *)
\* texts holds a submitted command
HasSubmission(texts) == \E i \in 1..Len(texts) : texts[i].op = "command"

\* C14: a run that fails with ExecutionCancelled has its 30000 ms timer cleared
\* and its command is not sent to the session, through neither completion path:
\* the step that rejects it submits nothing and leaves no fallback timer.
C14CancelledNotSent ==
  [][\A r \in 1..Len(runs) :
       (/\ runs[r].outcome.kind = "pending"
        /\ runs'[r].outcome.error = "ExecutionCancelled")
         => /\ ~runs'[r].timeout
            /\ ~HasSubmission(SentTo(heap[runs[r].target].terminal))
            /\ ~runs'[r].fallbackTimer]_vars


(* ------------------------------- dispose ------------------------------ *)
\* the step is the pool's first dispose()
FirstDispose == disposables # <<>> /\ disposables' = <<>>

\* C15: after dispose() every session that was in the registry has its handle
\* disposed, and no timer of the pool is pending: no 30000 ms execution timer,
\* no 1000 ms fallback timer, no 200 ms settle delay, no 3000 ms wait timer.
C15DisposeClearsTimers ==
  [][FirstDispose
       => /\ \A id \in DOMAIN terminalsById : terminals'[heap[id].terminal].disposed
          /\ \A r \in 1..Len(runs) :
               ~runs'[r].timeout /\ ~runs'[r].fallbackTimer /\ ~runs'[r].settleTimer
          /\ \A c \in 1..Len(calls) : ~calls'[c].timeout]_vars


\* C16: after dispose() terminalsById and terminalsByShell are empty, and a
\* second dispose() called then finds nothing to do: it changes no part of
\* the pool (no terminal disposed, no timer cleared, no subscription removed)
\* and the indices are still empty.
C16DisposeTwice ==
  [][Dispose
       => /\ terminalsById' = EmptyMap /\ terminalsByShell' = EmptyMap
          /\ executions' = EmptyMap
          /\ disposables' = <<>>
          /\ (dispose(State) = State)']_vars

\* the pool was disposed with sessions registered and a run in flight
C16Witness ==
  /\ disposables = <<>>
  /\ terminalsById = EmptyMap
  /\ \E h \in Handles : terminals[h].disposed
  /\ \E r \in 1..Len(runs) : runs[r].outcome.kind = "pending"


(* ------------------------------- the tool ----------------------------- *)
\* C17: a request that fails input validation (command or terminal_id missing,
\* empty or blank, shell_type outside the five kinds, working_dir, comment or
\* show_terminal of the wrong type, a command matching the exit, kill or
\* taskkill patterns) is rejected with InvalidInput before any pool operation:
\* the registry, every comment and lastUsedAt, every terminal's instructions
\* and the executions are as before, and no timer is started.
C17InvalidInputTouchesNothing ==
  [][(Len(runs') = Len(runs) + 1 /\ runs'[Len(runs')].input \in BadInputs)
       => LET run == runs'[Len(runs')]
          IN  /\ run.outcome = [NoOutcome EXCEPT !.kind = "rejected", !.error = "InvalidInput"]
              /\ ~run.settleTimer /\ ~run.timeout /\ ~run.fallbackTimer /\ ~run.listener
              /\ RegistryUnchanged
              /\ terminals' = terminals
              /\ executions' = executions]_vars

\* a request with an exit command was rejected although it names a registered
\* session, whose comment it would have set and whose lastUsedAt is behind the clock
C17Witness ==
  \E r \in 1..Len(runs) :
    /\ runs[r].input = [GoodInput EXCEPT !.command = Some(T_exit)]
    /\ runs[r].outcome.error = "InvalidInput"
    /\ 1 \in DOMAIN terminalsById
    /\ heap[1].comment = None
    /\ heap[1].lastUsedAt < now
    /\ ~HasSubmission(TextsOf(1))


(* ------------------------- updateTerminalComment ---------------------- *)
\* C18: updateTerminalComment(id, text) returns false and changes nothing (no
\* registry field, no instruction sent) when id is not in terminalsById;
\* otherwise it returns true, sets the session's comment to text and its
\* lastUsedAt to the clock, sends that session the metadata assignments again,
\* and leaves every other session, every other terminal and the key sets of
\* both indices as they were.
C18UpdateComment ==
  [][\A id \in 1..MaxIds, cm \in UpdateComments :
       (/\ calls' = calls /\ now' = now /\ pendingOpen' = pendingOpen
        /\ IF id \in DOMAIN terminalsById
           THEN terminals' # terminals /\ heap'[id].comment = Some(cm)
           ELSE updated' # updated
        /\ UpdateTerminalComment(id, cm))
         => IF id \in DOMAIN terminalsById
            THEN /\ updated' = "true"
                 /\ heap'[id] = [heap[id] EXCEPT !.comment = Some(cm), !.lastUsedAt = now]
                 /\ StampedBy(id)
                 /\ Len(SentTo(heap[id].terminal)) = 2
                 /\ \A j \in 1..Len(heap) : j # id => heap'[j] = heap[j]
                 /\ \A h \in Handles : h # heap[id].terminal => terminals'[h] = terminals[h]
                 /\ Len(heap') = Len(heap) /\ Len(terminals') = Len(terminals)
                 /\ UNCHANGED <<terminalsById, terminalsByShell, terminalToId>>
            ELSE /\ updated' = "false"
                 /\ RegistryUnchanged
                 /\ terminals' = terminals]_vars

\* an update succeeded (a session has the empty comment, which only
\* updateTerminalComment sets, and was used after its creation) and a later
\* one failed while sessions were registered
C18Witness ==
  /\ updated = "false"
  /\ \E id \in DOMAIN terminalsById :
       heap[id].comment = Some(<<>>) /\ heap[id].lastUsedAt > heap[id].createdAt


(* ------------------------ the wait and the command -------------------- *)
\* call c has issued its creation command, which has not returned
CommandPending(c) == calls[c].pc = "awaitCommand" /\ calls[c].command = "pending"

\* C19: when openTerminalProfile issues the creation command, its wait is
\* already running (session-opened subscription and 3000 ms timer); while the
\* command is pending the wait stays subscribed until it settles; and a
\* session-opened notification with a matching name that arrives while the
\* command is pending and the wait has not settled settles it with that handle.
C19WaitBeforeCommand ==
  /\ [](\A c \in 1..Len(calls) :
          (CommandPending(c) /\ ~calls[c].settled) => (calls[c].listener /\ calls[c].timeout))
  /\ [][\A c \in 1..Len(calls'), h \in Handles :
          /\ (c > Len(calls) /\ calls'[c].command = "pending")
               => (calls'[c].listener /\ calls'[c].timeout /\ ~calls'[c].settled)
          /\ (/\ c <= Len(calls)
              /\ h \in pendingOpen /\ pendingOpen' # pendingOpen
              /\ OnDidOpenTerminal(h)
              /\ CommandPending(c) /\ ~calls[c].settled
              /\ includes(terminals[h].name, calls[c].profileToUse))
               => (/\ calls'[c].settled /\ calls'[c].value = h
                   /\ calls'[c].pc = "awaitCommand")]_vars

\* the notification came before the command returned and the wait holds its handle
C19Witness ==
  \E c \in 1..Len(calls) :
    /\ CommandPending(c)
    /\ calls[c].settled
    /\ calls[c].value # NoTerminal
    /\ calls[c].value = calls[c].firstMatch


(* ------------------------ structured completion ----------------------- *)
\* run r was resolved by the step
ResolvedNow(r) == runs[r].outcome.kind = "pending" /\ runs'[r].outcome.kind = "resolved"

\* the step is the end event of the execution submitted by run e
EndEventOf(e) == e \in 1..Len(runs) /\ ~runs[e].ended /\ runs'[e].ended

\* C20: a run that submitted its command through shell integration is resolved
\* only by the end event of its own execution, with the exit code the event
\* reports, or 0 when it reports none; the end event of another run's execution,
\* on the same session or on another, leaves the run as it was.
C20OwnExecutionOnly ==
  [][\A r \in 1..Len(runs) :
       /\ (runs[r].execution /\ ResolvedNow(r))
            => /\ EndEventOf(r)
               /\ \E code \in {None, Some(1)} :
                    /\ OnDidEndTerminalShellExecution(r, code)
                    /\ runs'[r].outcome.exitCode = IF code = None THEN 0 ELSE code[1]
               /\ ~runs'[r].timeout /\ ~runs'[r].listener
       /\ \A e \in 1..Len(runs) :
            (e # r /\ EndEventOf(e)) => runs'[r] = runs[r]]_vars

\* two runs with executions of their own, on one session; the second one's
\* execution has ended and resolved it with the reported code 1, the first is
\* still waiting
C20Witness ==
  /\ Len(runs) = 2
  /\ runs[1].target = runs[2].target
  /\ runs[1].execution /\ runs[2].execution
  /\ runs[2].ended /\ runs[2].outcome = [NoOutcome EXCEPT !.kind = "resolved", !.exitCode = 1]
  /\ ~runs[1].ended /\ runs[1].outcome.kind = "pending" /\ runs[1].listener


(* --------------------------- the fallback path ------------------------ *)
\* run r was dispatched through fallbackExecute and has not settled
OnFallbackPath(r) ==
  /\ runs[r].pc = "running" /\ ~runs[r].execution
  /\ runs[r].outcome.kind = "pending"

\* C21: a run dispatched without structured completion (no shell integration,
\* or the structured submission threw) has sent its raw command text, and the
\* only way it settles is the 1000 ms timer: it resolves with exit code 0 and
\* the 30000 ms timer is cleared; it never fails with ExecutionTimeout.
C21FallbackResolves ==
  /\ [](\A r \in 1..Len(runs) :
          OnFallbackPath(r)
            => \E i \in 1..Len(TextsOf(runs[r].target)) :
                 TextsOf(runs[r].target)[i] = commandInstruction("sendText", runs[r].command))
  /\ [][\A r \in 1..Len(runs) :
          (OnFallbackPath(r) /\ runs'[r].outcome.kind # "pending")
            => /\ runs[r].fallbackTimer
               /\ runs'[r].outcome = [NoOutcome EXCEPT !.kind = "resolved"]
               /\ ~runs'[r].timeout /\ ~runs'[r].fallbackTimer]_vars


C23EntryWhilePending ==
  \A k \in DOMAIN executions :
    LET e == executions[k]
        run == runs[e.run]
    IN  /\ e.run \in 1..Len(runs)
        /\ HasSubmission(TextsOf(run.target))
        /\ run.outcome.kind = "pending"
        /\ IF e.timer = "fallback" THEN run.fallbackTimer ELSE run.timeout


\* the entry of a structured run between its submission and its completion event
C23Witness ==
  \E k \in DOMAIN executions :
    /\ executions[k].timer = "timeout"
    /\ runs[executions[k].run].execution /\ ~runs[executions[k].run].ended
    /\ runs[executions[k].run].outcome.kind = "pending"
    /\ HasSubmission(TextsOf(runs[executions[k].run].target))


(* --------------------------- the working directory -------------------- *)
\* the instructions the step sent to the session of run r
SentFor(r) == SentTo(heap'[runs'[r].target].terminal)

\* texts is one submitted command, this one
IsCommand(texts, command) ==
  /\ Len(texts) = 1
  /\ texts[1].op = "command" /\ texts[1].value = command

\* C24: executeCommand with a workingDir sends the directory change and nothing
\* else, and starts the 200 ms delay; the command is sent when the delay ends,
\* after the directory change in the session's instructions. Without a
\* workingDir the command is sent by the call itself and no directory change
\* is sent.
C24DirectoryFirst ==
  [][\A r \in 1..Len(runs') :
       /\ (r > Len(runs) /\ Truthy(runs'[r].workingDir))
            => /\ SentFor(r) = <<cdInstruction(runs'[r].workingDir[1])>>
               /\ runs'[r].settleTimer /\ runs'[r].pc = "settle"
               /\ ~runs'[r].timeout /\ ~runs'[r].fallbackTimer
       /\ (r > Len(runs) /\ ~Truthy(runs'[r].workingDir))
            => /\ IsCommand(SentFor(r), runs'[r].command)
               /\ ~runs'[r].settleTimer /\ runs'[r].pc = "running"
       /\ (r <= Len(runs) /\ runs[r].settleTimer /\ ~runs'[r].settleTimer)
            => /\ IsCommand(SentFor(r), runs[r].command)
               /\ \E i \in 1..Len(TextsOf(runs[r].target)) :
                    TextsOf(runs[r].target)[i] = cdInstruction(runs[r].workingDir[1])]_vars

\* two runs on one session: one with a working directory, whose command was
\* sent after its directory change, and one without, dispatched in between
C24Witness ==
  /\ Len(runs) = 2
  /\ runs[1].target = runs[2].target
  /\ Truthy(runs[1].workingDir) /\ runs[1].pc = "running"
  /\ ~Truthy(runs[2].workingDir)
  /\ LET texts == TextsOf(runs[1].target)
     IN  \E i, j, k \in 1..Len(texts) :
           /\ i < j /\ j < k
           /\ texts[i].op = "cd" /\ texts[j].op = "command" /\ texts[k].op = "command"


(* ------------------------------ shell kinds --------------------------- *)
\* the rule table of shell-kind inference, in its order
KindRules ==
  << [kind |-> "powershell", paths |-> {S_pwsh, S_powershell}, names |-> {S_powershell}],
     [kind |-> "cmd", paths |-> {S_cmd_exe}, names |-> {S_command_prompt}],
     [kind |-> "gitbash", paths |-> {S_bash_exe}, names |-> {S_git_bash}],
     [kind |-> "wsl", paths |-> {S_wsl_exe}, names |-> {S_wsl}],
     [kind |-> "ubuntu", paths |-> {}, names |-> {S_ubuntu}] >>

\* rule i matches this launch path (optional) and profile name, case ignored
RuleMatches(i, path, name) ==
  \/ IsSome(path) /\ \E x \in KindRules[i].paths : includes(toLowerCase(path[1]), x)
  \/ \E x \in KindRules[i].names : includes(toLowerCase(name), x)

\* the kind the earliest matching rule gives, "undefined" when none matches
FirstMatchKind(path, name) ==
  LET hits == {i \in 1..Len(KindRules) : RuleMatches(i, path, name)}
  IN  IF hits = {} THEN "undefined"
      ELSE KindRules[CHOOSE i \in hits : \A j \in hits : i <= j].kind

\* the launch path of the terminal of session id
PathOf(id) == terminals[heap[id].terminal].creationOptions

\* C25: the kind of every session registered by openTerminalProfile is the
\* kind of the earliest rule, in the order powershell, cmd, gitbash, wsl,
\* ubuntu, that matches its launch path or its profile name, case ignored,
\* and is unknown when no rule matches; 'Ubuntu (WSL)' is wsl.
C25FirstMatchWins ==
  /\ \A id \in 1..Len(heap) :
       IsSome(heap[id].profileName)
         => heap[id].shellType = FirstMatchKind(PathOf(id), heap[id].profileName[1])
  /\ \A id \in 1..Len(heap) :
       (heap[id].profileName = Some(P_Ubuntu_WSL) /\ PathOf(id) \in {None, Some(X_wsl), Some(X_zsh)})
         => heap[id].shellType = "wsl"

\* a session of profile 'Ubuntu (WSL)' on a terminal without a launch path,
\* registered as wsl
C25Witness ==
  \E id \in DOMAIN terminalsById :
    /\ heap[id].profileName = Some(P_Ubuntu_WSL)
    /\ PathOf(id) = None
    /\ heap[id].shellType = "wsl"


(* ------------------------------ shell flavors ------------------------- *)
\* the assignment syntax for a session of this kind on a terminal with this
\* launch path: by the kind when it is known, else by the path, else bash
FlavorFor(kind, path) ==
  LET lower == IF IsSome(path) THEN toLowerCase(path[1]) ELSE <<>>
  IN  CASE kind = "powershell" -> "powershell"
        [] kind = "cmd" -> "cmd"
        [] kind \in {"gitbash", "wsl", "ubuntu"} -> "bash"
        [] OTHER -> IF includes(lower, S_pwsh) \/ includes(lower, S_powershell)
                    THEN "powershell"
                    ELSE IF includes(lower, S_cmd_exe) THEN "cmd" ELSE "bash"

\* C26: every assignment sent for a session is written in the syntax its
\* shell kind gives (powershell, cmd, and bash for gitbash, wsl and ubuntu),
\* whatever its launch path; a session of unknown kind gets the syntax its
\* launch path suggests, and bash when the path matches nothing.
C26FlavorByKind ==
  \A id \in 1..Len(heap) :
    LET texts == TextsOf(id)
        flavor == FlavorFor(heap[id].shellType, PathOf(id))
    IN  /\ HasStamp(texts, id)
        /\ \A i \in 1..(Len(texts) - 1) :
             (texts[i].var = PROMPT_ID_ENV /\ texts[i].value = quoteForShell(IdText(id)))
               => (texts[i].flavor = flavor /\ texts[i + 1].flavor = flavor)
        /\ (heap[id].shellType = "undefined" /\ PathOf(id) \in {None, Some(X_zsh)})
             => flavor = "bash"

\* a session of profile 'PowerShell' whose terminal was launched with CMD.EXE:
\* its kind is powershell and its assignments are in PowerShell syntax
C26Witness ==
  \E id \in DOMAIN terminalsById :
    /\ heap[id].profileName = Some(P_PowerShell)
    /\ PathOf(id) = Some(X_CMD)
    /\ heap[id].shellType = "powershell"
    /\ TextsOf(id)[1].flavor = "powershell"

\* ---- escaping of embedded values ----

\* a value that can stand between double quotes on one line: no line-break
\* character, every backslash begins a two-character escape, and no quote
\* stands outside such an escape
RECURSIVE SafeValue(_)
SafeValue(v) ==
  IF v = <<>> THEN TRUE
  ELSE IF Head(v) = "\\" THEN Len(v) >= 2 /\ SafeValue(Tail(Tail(v)))
  ELSE IF Head(v) \in {"\"", "\n", "\r"} THEN FALSE
  ELSE SafeValue(Tail(v))

\* C27: every assignment instruction sent to a terminal embeds a value with
\* no line-break character (LF, CR LF and a lone CR are all replaced) and no
\* unescaped double quote, whatever the comment.
C27ValuesEscaped ==
  \A h \in 1..Len(terminals) :
    \A i \in 1..Len(terminals[h].sentTexts) :
      terminals[h].sentTexts[i].op = "env"
        => SafeValue(terminals[h].sentTexts[i].value)

\* ---- session ids ----

\* the ids of the sessions registered so far
IdsEverRegistered == {heap[i].id : i \in 1..Len(heap)}

\* C28: a session's id never changes, no two sessions ever registered share
\* an id, an id that has left terminalsById is never found again by
\* getTerminalById, and a session registered by a step has an id no earlier
\* session had.
C28IdsUniqueForever ==
  /\ [](\A i, j \in 1..Len(heap) : i # j => heap[i].id # heap[j].id)
  /\ [][/\ Len(heap') >= Len(heap)
        /\ \A i \in 1..Len(heap) :
             /\ heap'[i].id = heap[i].id
             /\ heap[i].id \notin DOMAIN terminalsById
                  => /\ heap[i].id \notin DOMAIN terminalsById'
                     /\ getTerminalById(State, IdText(heap[i].id))' = NoId
        /\ \A i \in NewIds :
             /\ heap'[i].id \notin IdsEverRegistered
             /\ heap'[i].id \in DOMAIN terminalsById']_vars

\* dispose() removed a session, and the next getOrCreateTerminal for its kind
\* registered another one
C28Witness ==
  \E i, j \in 1..Len(heap) :
    /\ i < j
    /\ heap[i].shellType = heap[j].shellType
    /\ terminals[heap[i].terminal].disposed
    /\ heap[i].id \notin DOMAIN terminalsById
    /\ heap[j].shellType \in DOMAIN terminalsByShell
    /\ terminalsByShell[heap[j].shellType] = heap[j].id
    /\ getTerminalById(State, IdText(heap[j].id)) = heap[j].id

\* ---- the reuse path ----

\* C29: when getOrCreateTerminal finds a session for the kind, it sets
\* lastUsedAt to the clock, stores a comment or profile name that is given
\* and not empty, keeps the stored one otherwise, and changes nothing else:
\* the session's id, kind, createdAt and handle, the three indices, every
\* other session and the set of terminals stay as they were.
C29ReuseFrame ==
  [][\A k \in RequestedShells, cm \in Comments \cup {Some(<<>>)},
       pn \in {None, Some(<<>>), Some(P_zsh)} :
       (k \in DOMAIN terminalsByShell /\ GetOrCreateTerminal(k, cm, pn))
         => LET id == terminalsByShell[k]
            IN  /\ heap'[id].lastUsedAt = now
                /\ heap'[id].comment =
                     IF cm # None /\ cm[1] # <<>> THEN cm ELSE heap[id].comment
                /\ heap'[id].profileName =
                     IF pn # None /\ pn[1] # <<>> THEN pn ELSE heap[id].profileName
                /\ heap'[id].id = heap[id].id
                /\ heap'[id].shellType = heap[id].shellType
                /\ heap'[id].createdAt = heap[id].createdAt
                /\ heap'[id].terminal = heap[id].terminal
                /\ Len(heap') = Len(heap)
                /\ \A j \in 1..Len(heap) : j # id => heap'[j] = heap[j]
                /\ terminalsById' = terminalsById
                /\ terminalsByShell' = terminalsByShell
                /\ terminalToId' = terminalToId
                /\ Len(terminals') = Len(terminals)
                /\ \A h \in 1..Len(terminals) :
                     h # heap[id].terminal => terminals'[h] = terminals[h]]_vars

\* a session reused after the clock moved, still carrying the comment and
\* the profile name it was created with, beside a second session
C29Witness ==
  \E id \in DOMAIN terminalsById :
    /\ heap[id].createdAt < heap[id].lastUsedAt
    /\ Len(TextsOf(id)) = 4
    /\ heap[id].comment = Some(C_build)
    /\ heap[id].profileName = Some(P_zsh)
    /\ TextsOf(id)[4].value = C_build
    /\ Cardinality(DOMAIN terminalsById) = 2

\* ---- handles and ids ----

\* C30: for every entry of terminalsById the id recorded for its terminal in
\* terminalToId is the entry's id, so no two entries share a terminal.
C30HandleToIdConsistent ==
  /\ \A id \in DOMAIN terminalsById :
       LET h == heap[terminalsById[id]].terminal
       IN  h \in DOMAIN terminalToId /\ terminalToId[h] = heap[terminalsById[id]].id
  /\ \A a, b \in DOMAIN terminalsById :
       a # b => heap[terminalsById[a]].terminal # heap[terminalsById[b]].terminal

\* ---- after dispose() ----

\* C31: once dispose() has run, terminalsById and terminalsByShell stay
\* empty, whatever the openTerminalProfile calls in flight at that time do.
C31EmptyAfterDispose ==
  disposables = <<>> => (terminalsById = EmptyMap /\ terminalsByShell = EmptyMap)

\* ---- termination of executeCommand ----

\* C32: every executeCommand call that has started is eventually settled,
\* resolved or rejected, provided its timers fire.
C32EventuallySettles ==
  \A r \in 1..MaxRuns :
    (Len(runs) >= r) ~> (Len(runs) >= r /\ runs[r].outcome.kind # "pending")

\* ---- what a settled call leaves behind ----

\* C33: once an executeCommand call has settled, none of its timers (200 ms,
\* 1000 ms, 30000 ms) is pending and its completion listener is disposed.
C33SettledLeavesNothing ==
  \A r \in 1..Len(runs) :
    runs[r].outcome.kind # "pending"
      => /\ ~runs[r].settleTimer
         /\ ~runs[r].fallbackTimer
         /\ ~runs[r].timeout
         /\ ~runs[r].listener

\* C34: once an openTerminalProfile call has settled, its wait has no live
\* onDidOpenTerminal subscription, no live cancellation subscription and no
\* pending 3000 ms timer.
C34SettledWaitDisposed ==
  \A c \in 1..Len(calls) :
    calls[c].pc = "done"
      => (~calls[c].listener /\ ~calls[c].cancel /\ ~calls[c].timeout)

\* ---- concurrent calls on one session ----

\* the step is taken by an executeCommand call other than r: a new call
\* starts, or the 200 ms timer of another call fires
OtherCallActs(r) ==
  \/ Len(runs') > Len(runs)
  \/ \E q \in 1..Len(runs) : q # r /\ runs[q].settleTimer /\ ~runs'[q].settleTimer

\* C35: while a call has sent its directory change and not yet its command,
\* no other executeCommand call sends an instruction to the same terminal.
C35NoInterleaving ==
  [][\A r \in 1..Len(runs) :
       (runs[r].settleTimer /\ OtherCallActs(r))
         => SentTo(heap[runs[r].target].terminal) = <<>>]_vars

\* ---- closed sessions ----

\* the pool has run handleClosedTerminal for terminal h
ClosedProcessed(h) ==
  terminals[h].closed /\ terminals[h].closedAs \notin {"", "unheard"}

\* C36: once the pool has processed the closed notification of a terminal,
\* no instruction is sent to it any more (so no command is dispatched to it
\* and later reported with exit code 0).
C36NothingSentAfterClose ==
  [][\A h \in Handles : ClosedProcessed(h) => SentTo(h) = <<>>]_vars

\* ---- the index by kind ----

\* C37: whenever terminalsById holds a session of kind k whose terminal is
\* open, terminalsByShell has an entry for k (so getOrCreateTerminal(k)
\* reuses a session instead of creating one).
C37KindIndexCoversLive ==
  \A id \in DOMAIN terminalsById :
    LET m == heap[terminalsById[id]]
    IN  (m.shellType \in ShellTypes /\ ~terminals[m.terminal].closed)
          => m.shellType \in DOMAIN terminalsByShell

====
